---------------------------- MODULE Spec2Model ----------------------------
(***************************************************************************)
(* code-recall: the write pipeline and the search of the memory daemon.    *)
(*                                                                         *)
(*   /add -> _add_memory -> extract_facts -> store_facts                   *)
(*                                                                         *)
(* Spec      the daemon's /add workers as the code runs them               *)
(*           (daemon.py _handle_add, _add_memory; extract.py               *)
(*           extract_facts up to prompt construction).                     *)
(* SpecExtract  extract_facts called on its own, over a family of texts.   *)
(* SpecPipe  one invocation from the model call on (extract.py:140-164)    *)
(*           followed by store_facts (extract.py:189-234), with the        *)
(*           answers of the language model, the embedding service and      *)
(*           the vector store drawn from bounded sets, failures included.  *)
(* SpecSeq   invocations one after the other on the same store, every      *)
(*           service answering.                                            *)
(* SpecDedup the decision of _is_duplicate (extract.py:362-373) over a     *)
(*           grid of similarity scores and texts.                          *)
(* SpecRace  two /add workers interleaved on the same store.               *)
(* SpecSparse _upsert_sparse_vector (extract.py:322-338) over add results, *)
(*           called once and again.                                        *)
(* SpecSearch hybrid_search (extract.py:74-109).                           *)
(* SpecAccept POST /add from the request body on: the handler, then the    *)
(*           worker as the code has it.                                    *)
(* SpecIsolate two workers from the model call on, every service           *)
(*           answering or failing, with the handler of _add_memory.        *)
(* SpecReingest code-recall-reingest: the wipe, a search, the transcripts. *)
(* SpecState the workflow-state mode and the files of the workspace.       *)
(* SpecWorlds one submission in two collections that differ in another     *)
(*           user's facts.                                                 *)
(***************************************************************************)
EXTENDS Integers, Sequences, FiniteSets, TLC

VARIABLES
    pc,          \* worker -> where the worker stands
    params,      \* worker -> the parsed /add request (daemon.py:200-220)
    _memories,   \* the registry: collections that hold a store handle
    built,       \* collection -> number of build_memory calls made for it
    outcome,     \* worker -> what extract_facts did: returned a list or raised
    stage,       \* worker -> the last stage extract_facts entered
    calls,       \* worker -> generate_content calls made by this invocation
    responses,   \* worker -> what each response of the model parsed to, in order
    data,        \* worker -> the candidate facts of the parsed response
    prompt,      \* worker -> the date line of the prompt sent to the model
    external,    \* worker -> external calls made during extract_facts
    facts,       \* worker -> the list handed to store_facts
    idx,         \* worker -> store_facts: index of the fact being processed
    stored,      \* worker -> store_facts: local counter
    skipped,     \* worker -> store_facts: local counter
    checks,      \* worker -> per fact, how the duplicate check ended
    add_result,  \* worker -> what the last memory.add reported: ids and events
    points,      \* collection -> the points persisted, in insertion order
    submits,     \* number of requests accepted so far
    probe,       \* the inputs and the log of the call a specification studies
    hybrid       \* SpecSearch: the state of one hybrid_search call

vars == <<pc, params, _memories, built, outcome, stage, calls, responses, data,
          prompt, external, facts, idx, stored, skipped, checks, add_result,
          points, submits, probe, hybrid>>

Workers == {"w1", "w2"}

None == "None"

----------------------------------------------------------------------------
(* Program constants.  Scores are kept in hundredths, cosines in           *)
(* thousandths, so that the comparison of extract.py:365-366 is exact.     *)

_MIN_SPECIFICITY == 3
_MIN_UNIQUE_WORDS == 15
_DEDUP_THRESHOLD == 85
_DEDUP_COSINE_WEIGHT == 70
_DEDUP_JACCARD_WEIGHT == 30
_MAX_RETRIES == 1
MinTextLen == 100
MinStrippedLen == 20
WordMinLen == 2

DEFAULT_COLLECTION == "mem0_dev"
DEFAULT_USER_ID == "developer"
DEFAULT_DOMAIN == "developer"

----------------------------------------------------------------------------
(* Texts.  A text is a sequence of tokens; a token is a maximal run of     *)
(* whitespace (w = " ") or of non-whitespace characters.  n is the number  *)
(* of characters, w the lowercased spelling, cap whether the run holds an  *)
(* uppercase letter.                                                       *)

Word(w, n, cap) == [w |-> w, n |-> n, cap |-> cap]
Space(n) == [w |-> " ", n |-> n, cap |-> FALSE]
IsSpace(tok) == tok.w = " "

RECURSIVE SumLen(_)
SumLen(toks) ==
    IF toks = <<>> THEN 0 ELSE Head(toks).n + SumLen(Tail(toks))

\* len(text)
len(text) == SumLen(text)

RECURSIVE LStrip(_)
LStrip(toks) ==
    IF toks # <<>> /\ IsSpace(Head(toks)) THEN LStrip(Tail(toks)) ELSE toks

RECURSIVE RStrip(_)
RStrip(toks) ==
    IF toks # <<>> /\ IsSpace(toks[Len(toks)])
    THEN RStrip(SubSeq(toks, 1, Len(toks) - 1))
    ELSE toks

\* text.strip()
strip(text) == RStrip(LStrip(text))

\* text.split(): the runs of non-whitespace, in order
split(text) == SelectSeq(text, LAMBDA tok : ~IsSpace(tok))

\* word.lower()
lower(word) == [word EXCEPT !.cap = FALSE]

\* {word.lower() for word in text.split() if len(word) > 2}
WordSet(text) ==
    {lower(split(text)[i]) : i \in {j \in 1..Len(split(text)) : split(text)[j].n > WordMinLen}}

\* the gate with "at most 100 characters" for "fewer than 100"
LowEntropyInclusive(text) ==
    IF len(text) <= MinTextLen
    THEN TRUE
    ELSE Cardinality(WordSet(text)) < _MIN_UNIQUE_WORDS

\* the gate without its count of distinct words
LowEntropyByLengthOnly(text) == len(text) < MinTextLen

\* extract.py:341-346
_is_low_entropy(text) ==
    IF len(text) < MinTextLen
    THEN TRUE
    ELSE Cardinality(WordSet(text)) < _MIN_UNIQUE_WORDS

\* extract.py:119-124: the two early returns of extract_facts
GateRejects(text) ==
    \/ text = <<>>
    \/ len(strip(text)) < MinStrippedLen
    \/ _is_low_entropy(text)

----------------------------------------------------------------------------
(* The texts requests carry.                                               *)

Vocabulary ==
    <<"w01", "w02", "w03", "w04", "w05", "w06", "w07", "w08",
      "w09", "w10", "w11", "w12", "w13", "w14", "w15", "w16">>

RECURSIVE Spaced(_)
Spaced(words) ==
    IF Len(words) <= 1 THEN words
    ELSE <<Head(words), Space(1)>> \o Spaced(Tail(words))

\* d distinct words of wordLen characters, then (dup) the first word again
\* capitalised, then `shorts` two-character words, then `pad` blanks
MkText(d, wordLen, dup, shorts, pad) ==
    LET long == [i \in 1..d |-> Word(Vocabulary[i], wordLen, FALSE)]
        again == IF dup /\ d > 0 THEN <<Word(Vocabulary[1], wordLen, TRUE)>> ELSE <<>>
        short == [i \in 1..shorts |-> Word(Vocabulary[i], 2, FALSE)]
        tail == IF pad > 0 THEN <<Space(pad)>> ELSE <<>>
    IN  Spaced(long \o again \o short) \o tail

\* "Project uses pnpm workspaces with Turborepo monorepo; API lives in
\*  packages/api, frontend in packages/web"
E2EText ==
    Spaced(<<Word("project", 7, TRUE), Word("uses", 4, FALSE),
             Word("pnpm", 4, FALSE), Word("workspaces", 10, FALSE),
             Word("with", 4, FALSE), Word("turborepo", 9, TRUE),
             Word("monorepo;", 9, FALSE), Word("api", 3, TRUE),
             Word("lives", 5, FALSE), Word("in", 2, FALSE),
             Word("packages/api,", 13, FALSE), Word("frontend", 8, FALSE),
             Word("in", 2, FALSE), Word("packages/web", 12, FALSE)>>)

\* the texts extract_facts is applied to: every combination of word count,
\* word length, repeated word, short words and padding around the two
\* thresholds, and the text of the end-to-end example
TextPool ==
    { MkText(d, wordLen, dup, shorts, pad) :
        d \in {0, 2, 14, 15, 16}, wordLen \in {3, 6, 7}, dup \in BOOLEAN,
        shorts \in {0, 2}, pad \in {0, 40, 41} }
    \cup { <<Space(120)>>, MkText(3, 5, FALSE, 0, 100), E2EText }

\* the texts /add requests carry
RequestTexts ==
    { MkText(2, 3, FALSE, 0, 0), MkText(14, 7, TRUE, 0, 0),
      MkText(15, 6, FALSE, 0, 0), E2EText }

----------------------------------------------------------------------------
(* Dates and prompts.                                                      *)

Today == "2026-11-06"

SourcedAts == {"", "2024-01-15T10:00:00Z", "last tuesday"}

\* extract.py:237-245: datetime.fromisoformat, None on empty or invalid input
parse_timestamp(timestamp) ==
    IF timestamp = "" THEN None
    ELSE IF timestamp = "2024-01-15T10:00:00Z" THEN "2024-01-15"
    ELSE None

Domains == {"developer", "gardening"}

\* prompts.py:125: the domains that have instructions
_DOMAIN_INSTRUCTIONS == {"developer", "personal"}

\* prompts.py:72-73: datetime.now(), whatever the caller knows
_date_line == Today

\* prompts.py:186-195, called with the positional arguments `args`.
\* The function declares one parameter, domain.
build_prompt(args) ==
    IF Len(args) # 1
    THEN [kind |-> "raise", exc |-> "TypeError"]
    ELSE IF args[1] \notin _DOMAIN_INSTRUCTIONS
    THEN [kind |-> "raise", exc |-> "ValueError"]
    ELSE [kind |-> "return", date |-> _date_line]


----------------------------------------------------------------------------
(* The daemon's /add path, as the code runs it.                            *)

Collections == {"mem0_dev", "mem0_alt"}

NoOutcome == [kind |-> "none"]
Returned(list) == [kind |-> "return", val |-> list]
Raised(exc) == [kind |-> "raise", exc |-> exc]

NoParams ==
    [text |-> <<>>, domain |-> "", collection |-> "", user_id |-> "", sourced_at |-> ""]

\* everything but the workers' positions and requests; main() pre-loads the
\* default collection (daemon.py:275-277)
InitRest ==
    /\ _memories = {DEFAULT_COLLECTION}
    /\ built = [c \in Collections |-> IF c = DEFAULT_COLLECTION THEN 1 ELSE 0]
    /\ outcome = [w \in Workers |-> NoOutcome]
    /\ stage = [w \in Workers |-> "none"]
    /\ calls = [w \in Workers |-> 0]
    /\ responses = [w \in Workers |-> <<>>]
    /\ data = [w \in Workers |-> <<>>]
    /\ prompt = [w \in Workers |-> None]
    /\ external = [w \in Workers |-> 0]
    /\ facts = [w \in Workers |-> <<>>]
    /\ idx = [w \in Workers |-> 1]
    /\ stored = [w \in Workers |-> 0]
    /\ skipped = [w \in Workers |-> 0]
    /\ checks = [w \in Workers |-> <<>>]
    /\ add_result = [w \in Workers |-> <<>>]
    /\ points = [c \in Collections |-> <<>>]

Init ==
    /\ hybrid = None
    /\ InitRest
    /\ probe = None
    /\ pc = [w \in Workers |-> "idle"]
    /\ params = [w \in Workers |-> NoParams]
    /\ submits = 0

\* daemon.py:94-107 with _parse_add_body (daemon.py:200-220): a request with
\* a text starts one thread running _add_memory
_handle_add(w) ==
    /\ pc[w] = "idle"
    /\ \E text \in RequestTexts, domain \in Domains,
          collection \in Collections, sourced_at \in SourcedAts :
          params' = [params EXCEPT ![w] =
                        [text |-> text, domain |-> domain, collection |-> collection,
                         user_id |-> DEFAULT_USER_ID, sourced_at |-> sourced_at]]
    /\ pc' = [pc EXCEPT ![w] = "get_memory"]
    /\ submits' = submits + 1
    /\ UNCHANGED <<_memories, built, outcome, stage, calls, responses, data, prompt,
                   external, facts, idx, stored, skipped, checks, add_result, points, probe, hybrid>>

\* daemon.py:46-48: the membership test of _get_memory
_get_memory(w) ==
    /\ pc[w] = "get_memory"
    /\ pc' = [pc EXCEPT ![w] =
                IF params[w].collection \in _memories THEN "extract" ELSE "build_memory"]
    /\ UNCHANGED <<params, _memories, built, outcome, stage, calls, responses, data, prompt,
                   external, facts, idx, stored, skipped, checks, add_result, points, submits, probe, hybrid>>

\* daemon.py:49-51 with _mem0.py:63-90: build the handle and insert it; a
\* failure of build_memory is caught by _add_memory (daemon.py:240-241)
build_memory(w) ==
    /\ pc[w] = "build_memory"
    /\ \/ /\ built' = [built EXCEPT ![params[w].collection] = @ + 1]
          /\ _memories' = _memories \cup {params[w].collection}
          /\ pc' = [pc EXCEPT ![w] = "extract"]
       \/ /\ pc' = [pc EXCEPT ![w] = "failed"]
          /\ UNCHANGED <<built, _memories>>
    /\ UNCHANGED <<params, outcome, stage, calls, responses, data, prompt,
                   external, facts, idx, stored, skipped, checks, add_result, points, submits, probe, hybrid>>

\* extract.py:119-124: the early returns of extract_facts; a returned list
\* goes on to store_facts (daemon.py:228-233)
ExtractGate(w) ==
    /\ pc[w] = "extract"
    /\ stage' = [stage EXCEPT ![w] = "gate"]
    /\ IF GateRejects(params[w].text)
       THEN /\ outcome' = [outcome EXCEPT ![w] = Returned(<<>>)]
            /\ facts' = [facts EXCEPT ![w] = <<>>]
            /\ pc' = [pc EXCEPT ![w] = "store"]
       ELSE /\ pc' = [pc EXCEPT ![w] = "build_prompt"]
            /\ UNCHANGED <<outcome, facts>>
    /\ UNCHANGED <<params, _memories, built, calls, responses, data, prompt,
                   external, idx, stored, skipped, checks, add_result, points, submits, probe, hybrid>>

\* extract.py:126: build_prompt(domain, reference_date), the reference date
\* being parse_timestamp(sourced_at) (daemon.py:227); an exception leaves
\* extract_facts and is caught by _add_memory (daemon.py:240-241)
BuildPrompt(w) ==
    /\ pc[w] = "build_prompt"
    /\ stage' = [stage EXCEPT ![w] = "prompt"]
    /\ LET built_prompt == build_prompt(<<params[w].domain, parse_timestamp(params[w].sourced_at)>>)
       IN  IF built_prompt.kind = "raise"
           THEN /\ outcome' = [outcome EXCEPT ![w] = Raised(built_prompt.exc)]
                /\ pc' = [pc EXCEPT ![w] = "failed"]
                /\ UNCHANGED prompt
           ELSE /\ prompt' = [prompt EXCEPT ![w] = built_prompt.date]
                /\ pc' = [pc EXCEPT ![w] = "generate"]
                /\ UNCHANGED outcome
    /\ UNCHANGED <<params, _memories, built, calls, responses, data,
                   external, facts, idx, stored, skipped, checks, add_result, points, submits, probe, hybrid>>

\* extract.py:204 and 232-234: the loop of store_facts is over; return stored
StoreReturn(w) ==
    /\ pc[w] = "store"
    /\ idx[w] > Len(facts[w])
    /\ pc' = [pc EXCEPT ![w] = "done"]
    /\ UNCHANGED <<params, _memories, built, outcome, stage, calls, responses, data, prompt,
                   external, facts, idx, stored, skipped, checks, add_result, points, submits, probe, hybrid>>

Next ==
    \E w \in Workers :
        \/ _handle_add(w)
        \/ _get_memory(w)
        \/ build_memory(w)
        \/ ExtractGate(w)
        \/ BuildPrompt(w)
        \/ StoreReturn(w)

Spec == Init /\ [][Next]_vars

----------------------------------------------------------------------------
(* extract_facts(text, domain, reference_date) called on its own.          *)

Caller == "w1"

InitExtract ==
    /\ hybrid = None
    /\ InitRest
    /\ probe = None
    /\ pc = [w \in Workers |-> IF w = Caller THEN "extract" ELSE "idle"]
    /\ \E text \in TextPool, domain \in Domains, sourced_at \in SourcedAts :
          params = [w \in Workers |->
                      IF w = Caller
                      THEN [text |-> text, domain |-> domain,
                            collection |-> DEFAULT_COLLECTION,
                            user_id |-> DEFAULT_USER_ID, sourced_at |-> sourced_at]
                      ELSE NoParams]
    /\ submits = 1

NextExtract ==
    \E w \in Workers :
        \/ ExtractGate(w)
        \/ BuildPrompt(w)

SpecExtract == InitExtract /\ [][NextExtract]_vars


----------------------------------------------------------------------------
(* Candidate facts and the answers of the language model.                  *)

MaxFacts == 2

\* dict.get(key, default)
get(dict, key, default) == IF key \in DOMAIN dict THEN dict[key] ELSE default

ContentA ==
    Spaced(<<Word("project", 7, TRUE), Word("uses", 4, FALSE),
             Word("pnpm", 4, FALSE), Word("workspaces", 10, FALSE)>>)

\* ContentA reworded: four of its five words are ContentA's
ContentB ==
    Spaced(<<Word("project", 7, FALSE), Word("uses", 4, FALSE),
             Word("pnpm", 4, TRUE), Word("workspaces", 10, FALSE),
             Word("daily", 5, FALSE)>>)

\* "Go is OK": no word longer than two characters
ContentC ==
    Spaced(<<Word("go", 2, TRUE), Word("is", 2, FALSE), Word("ok", 2, TRUE)>>)

ContentD ==
    Spaced(<<Word("api", 3, TRUE), Word("lives", 5, FALSE), Word("in", 2, FALSE),
             Word("packages/api", 12, FALSE)>>)

FactPool ==
    { [content |-> ContentA, category |-> "tooling", temporal_scope |-> "stable",
       specificity_score |-> 4, source_type |-> "explicit_statement",
       entities |-> <<"pnpm", "Turborepo">>],
      [content |-> ContentB, category |-> "tooling", temporal_scope |-> "permanent",
       specificity_score |-> 3, entities |-> <<"pnpm">>],
      [content |-> ContentC, category |-> "language", temporal_scope |-> "situational",
       specificity_score |-> 5, entities |-> <<"Go">>, valid_at |-> "2024-01-15"],
      [content |-> ContentD, category |-> "layout", temporal_scope |-> "stable",
       specificity_score |-> 2, entities |-> <<"API">>],
      [content |-> ContentD, category |-> "layout", temporal_scope |-> "ephemeral",
       specificity_score |-> 5, entities |-> <<"API">>],
      [content |-> ContentD, category |-> "layout", temporal_scope |-> "stable",
       specificity_score |-> 4, entities |-> <<>>] }

FactLists == UNION { [1..n -> FactPool] : n \in 0..MaxFacts }

\* what generate_content gives: an error, or a response whose text is one of
\* the shapes _parse_response and extract_facts tell apart
Responses ==
    { [tag |-> t] : t \in {"APIError", "no_candidates", "no_content", "empty_text",
                           "invalid_json", "json_null", "json_list", "json_object"} }
    \cup { [tag |-> "json_object", facts |-> list] : list \in FactLists }

\* extract.py:263-272: None when there is no text or the text is not JSON;
\* candidates[0].content of a candidate without content raises
_parse_response(response) ==
    CASE response.tag \in {"no_candidates", "empty_text", "invalid_json", "json_null"} ->
            [kind |-> "None"]
      [] response.tag = "no_content" -> Raised("AttributeError")
      [] response.tag = "json_list" -> [kind |-> "list"]
      [] OTHER -> [kind |-> "dict", value |-> response]

\* the condition without its test of the temporal scope
KeepsAnyScope(fact) ==
    /\ get(fact, "specificity_score", 0) >= _MIN_SPECIFICITY
    /\ Len(get(fact, "entities", <<>>)) > 0

\* the condition with "above the minimum" for "at least the minimum"
KeepsAboveMinimum(fact) ==
    /\ get(fact, "specificity_score", 0) > _MIN_SPECIFICITY
    /\ get(fact, "temporal_scope", None) # "ephemeral"
    /\ Len(get(fact, "entities", <<>>)) > 0

\* extract.py:158-160: the condition of the comprehension
Keeps(fact) ==
    /\ get(fact, "specificity_score", 0) >= _MIN_SPECIFICITY
    /\ get(fact, "temporal_scope", None) # "ephemeral"
    /\ Len(get(fact, "entities", <<>>)) > 0

\* extract.py:155-161
PostFilter(candidates) == SelectSeq(candidates, Keeps)

\* one attempt too many
AttemptsOneMore == _MAX_RETRIES + 2

\* extract.py:141: range(_MAX_RETRIES + 1)
Attempts == _MAX_RETRIES + 1

----------------------------------------------------------------------------
(* The duplicate check.                                                    *)

Users == {"developer", "alice"}

\* the score the store gives a stored text against a query text, in
\* thousandths: the embedding is a function of the text, so equal texts
\* score 1000
Cosine(text_a, text_b) ==
    IF text_a = text_b THEN 1000
    ELSE IF {text_a, text_b} = {ContentA, ContentB} THEN 900
    ELSE 400

\* extract.py:376-384, as the pair <<intersection, union>>; 0.0 is <<0, 1>>
_jaccard_word_overlap(text_a, text_b) ==
    LET words_a == WordSet(text_a)
        words_b == WordSet(text_b)
    IN  IF words_a = {} \/ words_b = {}
        THEN <<0, 1>>
        ELSE <<Cardinality(words_a \cap words_b), Cardinality(words_a \cup words_b)>>

\* the comparison with "above the threshold" for "at least the threshold"
ExceedsThreshold(cosine_score, jaccard) ==
    _DEDUP_COSINE_WEIGHT * cosine_score * jaccard[2]
        + _DEDUP_JACCARD_WEIGHT * 1000 * jaccard[1]
    > _DEDUP_THRESHOLD * 1000 * jaccard[2]

\* extract.py:365-366: 0.7 * cosine + 0.3 * jaccard >= 0.85, both sides
\* multiplied by 100 * 1000 * union
ReachesThreshold(cosine_score, jaccard) ==
    _DEDUP_COSINE_WEIGHT * cosine_score * jaccard[2]
        + _DEDUP_JACCARD_WEIGHT * 1000 * jaccard[1]
    >= _DEDUP_THRESHOLD * 1000 * jaccard[2]

\* a verdict on the cosine score alone
VerdictByCosine(cosine_score, text, existing_text) ==
    cosine_score * 100 >= _DEDUP_THRESHOLD * 1000

\* extract.py:362-370: the verdict on the nearest neighbour; existing_text
\* is "" (here <<>>) when the payload has no "data"
Verdict(cosine_score, text, existing_text) ==
    LET jaccard == IF existing_text # <<>>
                   THEN _jaccard_word_overlap(text, existing_text)
                   ELSE <<0, 1>>
    IN  ReachesThreshold(cosine_score, jaccard)

\* the store's answer to a search with limit 1: the indices of the points
\* of the collection that score highest (any one of them may be returned)
Nearest(pts, text) ==
    { i \in 1..Len(pts) :
        \A j \in 1..Len(pts) : Cosine(text, pts[j].vector) <= Cosine(text, pts[i].vector) }

\* the store's answer to the search of extract.py:355-358 when it answers
\* well: the nearest point with its score, or nothing in an empty collection
Search(pts, text, nearest) ==
    [tag |-> "ok",
     results |-> IF nearest = 0 THEN <<>>
                 ELSE <<[score |-> Cosine(text, pts[nearest].vector),
                         payload |-> pts[nearest].payload]>>]

EmbedOutcomes == {"ok", "HTTPError", "empty", "JSONDecodeError"}
SearchFailures == {"HTTPError", "JSONDecodeError", "no_result", "KeyError", "TypeError"}

\* extract.py:297-308: the embedding, None when the request fails or the
\* answer holds no embedding; a body that is not JSON raises out of it
_embed_text(embed) ==
    CASE embed = "ok" -> [kind |-> "return", val |-> "embedding"]
      [] embed \in {"HTTPError", "empty"} -> [kind |-> "return", val |-> None]
      [] OTHER -> Raised(embed)

\* extract.py:349-373.  embed is what the embedding service does, answer
\* what the store does: a failure (the request fails, the body is not JSON,
\* it has no "result", its shape raises KeyError or TypeError) or the
\* results of the search.  failed names the failure the check met, if any.
_is_duplicate(text, embed, answer) ==
    LET embedding == _embed_text(embed)
    IN  IF embedding.kind = "raise" THEN embedding
        ELSE IF embedding.val = None
        THEN [kind |-> "return", val |-> FALSE, failed |-> embed]
        ELSE IF answer.tag \in {"HTTPError", "KeyError"}
        THEN [kind |-> "return", val |-> FALSE, failed |-> answer.tag]
        ELSE IF answer.tag \in {"JSONDecodeError", "TypeError"}
        THEN Raised(answer.tag)
        ELSE IF answer.tag = "no_result"
        THEN [kind |-> "return", val |-> FALSE, failed |-> answer.tag]
        ELSE IF answer.results = <<>>
        THEN [kind |-> "return", val |-> FALSE, failed |-> "none"]
        ELSE [kind |-> "return",
              val |-> Verdict(answer.results[1].score, text,
                              get(answer.results[1].payload, "data", <<>>)),
              failed |-> "none"]

----------------------------------------------------------------------------
(* extract_facts from the model call on, then store_facts.                 *)

Running(w) == pc[w] \notin {"idle", "done", "failed"}

\* ", ".join(entities)
RECURSIVE Join(_)
Join(entities) ==
    IF entities = <<>> THEN ""
    ELSE IF Len(entities) = 1 THEN entities[1]
    ELSE entities[1] \o ", " \o Join(Tail(entities))

\* daemon.py:229-232: the metadata _add_memory adds to every fact
ExtraMetadata(request) ==
    [sourced_at |-> IF request.sourced_at # "" THEN request.sourced_at ELSE Today]

\* extract.py:208-222; fact["category"], fact["temporal_scope"] and
\* fact["specificity_score"] raise KeyError when the key is missing
Metadata(fact, extra_metadata) ==
    IF ~({"category", "temporal_scope", "specificity_score"} \subseteq DOMAIN fact)
    THEN Raised("KeyError")
    ELSE [kind |-> "return",
          val |-> extra_metadata @@
                  (IF get(fact, "valid_at", "") # ""
                   THEN [valid_at |-> fact.valid_at] ELSE <<>>) @@
                  (IF get(fact, "expires_at", "") # ""
                   THEN [expires_at |-> fact.expires_at] ELSE <<>>) @@
                  [category |-> fact.category,
                   temporal_scope |-> fact.temporal_scope,
                   specificity_score |-> fact.specificity_score,
                   source_type |-> get(fact, "source_type", ""),
                   entities |-> Join(get(fact, "entities", <<>>))]]

\* memory.add(..., infer=False) (extract.py:223-228): one point, the content
\* stored verbatim as payload "data" with the user and the metadata
NewPoint(pts, fact, user_id, metadata) ==
    [id |-> Len(pts) + 1,
     vector |-> fact.content,
     payload |-> metadata @@ [data |-> fact.content, user_id |-> user_id],
     sparse |-> <<>>]

\* an invocation whose text passed the gate and whose prompt is built
\* (extract.py:126-138), about to call the model
AtModelCall(w, collection, user_id) ==
    /\ params' = [params EXCEPT ![w] =
                    [text |-> MkText(15, 6, FALSE, 0, 0), domain |-> DEFAULT_DOMAIN,
                     collection |-> collection, user_id |-> user_id,
                     sourced_at |-> "2024-01-15T10:00:00Z"]]
    /\ stage' = [stage EXCEPT ![w] = "prompt"]
    /\ prompt' = [prompt EXCEPT ![w] = build_prompt(<<DEFAULT_DOMAIN>>).date]
    /\ pc' = [pc EXCEPT ![w] = "generate"]

\* invocations follow one another, each by its own thread
Invoke(w) ==
    /\ pc[w] = "idle"
    /\ \A v \in Workers : ~Running(v)
    /\ \E collection \in Collections, user_id \in Users :
          AtModelCall(w, collection, user_id)
    /\ submits' = submits + 1
    /\ UNCHANGED <<_memories, built, outcome, calls, responses, data, external, facts,
                   idx, stored, skipped, checks, add_result, points, probe, hybrid>>

\* extract.py:141-164: one turn of the retry loop on the answer `response`,
\* and what follows the loop when it ends
GenerateWith(w, response) ==
    /\ pc[w] = "generate"
    /\ stage' = [stage EXCEPT ![w] = "model"]
    /\ calls' = [calls EXCEPT ![w] = @ + 1]
    /\ external' = [external EXCEPT ![w] = @ + 1]
    /\ IF response.tag = "APIError"
       THEN /\ outcome' = [outcome EXCEPT ![w] = Raised("APIError")]
            /\ responses' = [responses EXCEPT ![w] = Append(@, "raise")]
            /\ pc' = [pc EXCEPT ![w] = "failed"]
            /\ UNCHANGED <<facts, data>>
       ELSE LET parsed == _parse_response(response)
            IN  /\ responses' = [responses EXCEPT ![w] = Append(@, parsed.kind)]
                /\ CASE parsed.kind = "raise" ->
                            /\ outcome' = [outcome EXCEPT ![w] = parsed]
                            /\ pc' = [pc EXCEPT ![w] = "failed"]
                            /\ UNCHANGED <<facts, data>>
                     [] parsed.kind = "None" /\ calls[w] + 1 < Attempts ->
                            /\ UNCHANGED <<outcome, pc, facts, data>>
                     [] parsed.kind = "None" /\ calls[w] + 1 >= Attempts ->
                            /\ outcome' = [outcome EXCEPT ![w] = Returned(<<>>)]
                            /\ facts' = [facts EXCEPT ![w] = <<>>]
                            /\ pc' = [pc EXCEPT ![w] = "store"]
                            /\ UNCHANGED data
                     [] parsed.kind = "list" ->
                            /\ outcome' = [outcome EXCEPT ![w] = Raised("AttributeError")]
                            /\ pc' = [pc EXCEPT ![w] = "failed"]
                            /\ UNCHANGED <<facts, data>>
                     [] OTHER ->
                            LET candidates == get(parsed.value, "facts", <<>>)
                                filtered == PostFilter(candidates)
                            IN  /\ data' = [data EXCEPT ![w] = candidates]
                                /\ outcome' = [outcome EXCEPT ![w] = Returned(filtered)]
                                /\ facts' = [facts EXCEPT ![w] = filtered]
                                /\ pc' = [pc EXCEPT ![w] = "store"]
    /\ UNCHANGED <<params, _memories, built, prompt, idx, stored, skipped, checks,
                   add_result, points, submits, probe, hybrid>>

Generate(w) == \E response \in Responses : GenerateWith(w, response)

\* extract.py:204-207: the duplicate check of the next fact, the embedding
\* service answering as `embed` says and the store as `search` says
CheckWith(w, embed, search) ==
    /\ pc[w] = "store"
    /\ idx[w] <= Len(facts[w])
    /\ LET pts == points[params[w].collection]
           text == facts[w][idx[w]].content
       IN  \E nearest \in (IF pts = <<>> THEN {0} ELSE Nearest(pts, text)) :
             LET answer == IF search = "ok" THEN Search(pts, text, nearest)
                           ELSE [tag |-> search]
                 duplicate == _is_duplicate(text, embed, answer)
             IN  /\ checks' = [checks EXCEPT ![w] = Append(@, duplicate)]
                 /\ IF duplicate.kind = "raise"
                    THEN /\ pc' = [pc EXCEPT ![w] = "failed"]
                         /\ UNCHANGED <<skipped, idx>>
                    ELSE IF duplicate.val
                    THEN /\ skipped' = [skipped EXCEPT ![w] = @ + 1]
                         /\ idx' = [idx EXCEPT ![w] = @ + 1]
                         /\ UNCHANGED pc
                    ELSE /\ pc' = [pc EXCEPT ![w] = "add"]
                         /\ UNCHANGED <<skipped, idx>>
    /\ UNCHANGED <<params, _memories, built, outcome, stage, calls, responses, data,
                   prompt, external, facts, stored, add_result, points, submits, probe, hybrid>>

CheckDuplicate(w) ==
    \E embed \in EmbedOutcomes, search \in SearchFailures \cup {"ok"} :
        CheckWith(w, embed, search)

AddOutcomes == {"ADD", "error"}

\* an add that overwrites the point already holding the content instead of
\* creating a new one
AddWithUpsert(w, added) ==
    /\ pc[w] = "add"
    /\ LET fact == facts[w][idx[w]]
           pts == points[params[w].collection]
           metadata == Metadata(fact, ExtraMetadata(params[w]))
           held == { i \in 1..Len(pts) : pts[i].payload.data = fact.content }
       IN  IF metadata.kind = "raise" \/ added = "error"
           THEN /\ pc' = [pc EXCEPT ![w] = "failed"]
                /\ UNCHANGED <<points, add_result, stored>>
           ELSE /\ points' = [points EXCEPT ![params[w].collection] =
                                 IF held = {}
                                 THEN Append(@, NewPoint(pts, fact, params[w].user_id,
                                                         metadata.val))
                                 ELSE @]
                /\ add_result' = [add_result EXCEPT ![w] =
                                     <<[id |-> Len(pts) + 1, event |-> added]>>]
                /\ stored' = [stored EXCEPT ![w] = @ + 1]
                /\ pc' = [pc EXCEPT ![w] = "sparse"]
    /\ UNCHANGED <<params, _memories, built, outcome, stage, calls, responses, data,
                   prompt, external, facts, idx, skipped, checks, submits, probe, hybrid>>

\* an add whose failure takes back the points the call had added
AddWithRollback(w, added) ==
    /\ pc[w] = "add"
    /\ LET fact == facts[w][idx[w]]
           pts == points[params[w].collection]
           metadata == Metadata(fact, ExtraMetadata(params[w]))
       IN  IF metadata.kind = "raise" \/ added = "error"
           THEN /\ pc' = [pc EXCEPT ![w] = "failed"]
                /\ points' = [points EXCEPT ![params[w].collection] =
                                 SubSeq(@, 1, Len(@) - stored[w])]
                /\ UNCHANGED <<add_result, stored>>
           ELSE /\ points' = [points EXCEPT ![params[w].collection] =
                                 Append(@, NewPoint(pts, fact, params[w].user_id,
                                                    metadata.val))]
                /\ add_result' = [add_result EXCEPT ![w] =
                                     <<[id |-> Len(pts) + 1, event |-> added]>>]
                /\ stored' = [stored EXCEPT ![w] = @ + 1]
                /\ pc' = [pc EXCEPT ![w] = "sparse"]
    /\ UNCHANGED <<params, _memories, built, outcome, stage, calls, responses, data,
                   prompt, external, facts, idx, skipped, checks, submits, probe, hybrid>>

\* extract.py:208-229: build the metadata, memory.add, count the fact
AddWith(w, added) ==
    /\ pc[w] = "add"
    /\ LET fact == facts[w][idx[w]]
           pts == points[params[w].collection]
           metadata == Metadata(fact, ExtraMetadata(params[w]))
       IN  IF metadata.kind = "raise" \/ added = "error"
           THEN /\ pc' = [pc EXCEPT ![w] = "failed"]
                /\ UNCHANGED <<points, add_result, stored>>
           ELSE /\ points' = [points EXCEPT ![params[w].collection] =
                                 Append(@, NewPoint(pts, fact, params[w].user_id,
                                                    metadata.val))]
                /\ add_result' = [add_result EXCEPT ![w] =
                                     <<[id |-> Len(pts) + 1, event |-> added]>>]
                /\ stored' = [stored EXCEPT ![w] = @ + 1]
                /\ pc' = [pc EXCEPT ![w] = "sparse"]
    /\ UNCHANGED <<params, _memories, built, outcome, stage, calls, responses, data,
                   prompt, external, facts, idx, skipped, checks, submits, probe, hybrid>>

AddFact(w) == \E added \in AddOutcomes : AddWith(w, added)

SparseOutcomes == {"ok", "encode_None", "encode_RuntimeError", "put_HTTPError"}

\* the falsy id of an item: None, "", 0 or no "id" at all
NoId == 0

\* the selection without its test of the event
PutIdsAnyEvent(results) ==
    LET chosen == SelectSeq(results, LAMBDA item : get(item, "id", NoId) # NoId)
    IN  [j \in 1..Len(chosen) |-> chosen[j].id]

\* extract.py:325-328: the ids of the items that are not skipped, in order
PutIds(results) ==
    LET chosen == SelectSeq(results,
                            LAMBDA item : /\ get(item, "id", NoId) # NoId
                                          /\ get(item, "event", None) \in {"ADD", "UPDATE"})
    IN  [j \in 1..Len(chosen) |-> chosen[j].id]

\* extract.py:329-336: the ids a PUT is sent for.  The encoder gives nothing
\* (None, or StopIteration or RuntimeError inside _sparse_encode): every
\* item is skipped.  The first PUT raises httpx.HTTPError: the loop is left.
PutsSent(results, sparse) ==
    CASE sparse = "ok" -> PutIds(results)
      [] sparse = "put_HTTPError" ->
            IF PutIds(results) = <<>> THEN <<>> ELSE <<Head(PutIds(results))>>
      [] OTHER -> <<>>

\* a PUT that adds to the sparse vector the point has instead of replacing it
PutSparseMerging(pts, ids, text) ==
    [i \in 1..Len(pts) |->
        IF \E j \in 1..Len(ids) : ids[j] = pts[i].id
        THEN [pts[i] EXCEPT !.sparse = @ \o text]
        ELSE pts[i]]

\* PUT /collections/{collection}/points/vectors (extract.py:333-336): the
\* store sets the named vector of the points that exist and leaves the rest
PutSparse(pts, ids, text) ==
    [i \in 1..Len(pts) |->
        IF \E j \in 1..Len(ids) : ids[j] = pts[i].id
        THEN [pts[i] EXCEPT !.sparse = text]
        ELSE pts[i]]

\* extract.py:322-338: what the call leaves in the collection
Upserted(pts, results, text, sparse) ==
    IF sparse = "ok" THEN PutSparse(pts, PutIds(results), text) ELSE pts

\* a failure of the sparse step that leaves store_facts
SparseWithRaising(w, sparse) ==
    /\ pc[w] = "sparse"
    /\ points' = [points EXCEPT ![params[w].collection] =
                    Upserted(@, add_result[w], facts[w][idx[w]].content, sparse)]
    /\ IF sparse = "ok"
       THEN /\ idx' = [idx EXCEPT ![w] = @ + 1]
            /\ pc' = [pc EXCEPT ![w] = "store"]
       ELSE /\ pc' = [pc EXCEPT ![w] = "failed"]
            /\ UNCHANGED idx
    /\ UNCHANGED <<params, _memories, built, outcome, stage, calls, responses, data,
                   prompt, external, facts, stored, skipped, checks, add_result,
                   submits, probe, hybrid>>

\* extract.py:230-231 with extract.py:322-338: attach the sparse vector to
\* the points the add reported as ADD or UPDATE, and go on to the next fact
SparseWith(w, sparse) ==
    /\ pc[w] = "sparse"
    /\ points' = [points EXCEPT ![params[w].collection] =
                    Upserted(@, add_result[w], facts[w][idx[w]].content, sparse)]
    /\ idx' = [idx EXCEPT ![w] = @ + 1]
    /\ pc' = [pc EXCEPT ![w] = "store"]
    /\ UNCHANGED <<params, _memories, built, outcome, stage, calls, responses, data,
                   prompt, external, facts, stored, skipped, checks, add_result,
                   submits, probe, hybrid>>

_upsert_sparse_vector(w) == \E sparse \in SparseOutcomes : SparseWith(w, sparse)

\* one invocation, at the model call
InitPipe ==
    /\ hybrid = None
    /\ InitRest
    /\ probe = None
    /\ pc = [w \in Workers |-> IF w = Caller THEN "generate" ELSE "idle"]
    /\ params = [w \in Workers |->
                    IF w = Caller
                    THEN [text |-> MkText(15, 6, FALSE, 0, 0), domain |-> DEFAULT_DOMAIN,
                          collection |-> DEFAULT_COLLECTION, user_id |-> DEFAULT_USER_ID,
                          sourced_at |-> "2024-01-15T10:00:00Z"]
                    ELSE NoParams]
    /\ submits = 1

NextPipe ==
    \E w \in Workers :
        \/ Generate(w)
        \/ CheckDuplicate(w)
        \/ AddFact(w)
        \/ _upsert_sparse_vector(w)
        \/ StoreReturn(w)

SpecPipe == InitPipe /\ [][NextPipe]_vars

----------------------------------------------------------------------------
(* Invocations in sequence, every service answering.                       *)

Parsed(w) ==
    \E response \in { r \in Responses : r.tag = "json_object" } : GenerateWith(w, response)

Checked(w) == CheckWith(w, "ok", "ok")

Added(w) == AddWith(w, "ADD")

Attached(w) == SparseWith(w, "ok")

NextSeq ==
    \E w \in Workers :
        \/ Invoke(w)
        \/ Parsed(w)
        \/ Checked(w)
        \/ Added(w)
        \/ Attached(w)
        \/ StoreReturn(w)

SpecSeq == Init /\ [][NextSeq]_vars

----------------------------------------------------------------------------
(* Two /add workers at once on the same store (daemon.py:105 starts one    *)
(* thread per request), every service answering.                           *)

\* a response with at most one candidate
ParsedOne(w) ==
    \E response \in { r \in Responses :
                        r.tag = "json_object" /\ Len(get(r, "facts", <<>>)) <= 1 } :
        GenerateWith(w, response)

InitRace ==
    /\ hybrid = None
    /\ InitRest
    /\ probe = None
    /\ pc = [w \in Workers |-> "generate"]
    /\ \E target \in [Workers -> Collections] :
          params = [w \in Workers |->
                      [text |-> MkText(15, 6, FALSE, 0, 0), domain |-> DEFAULT_DOMAIN,
                       collection |-> target[w], user_id |-> DEFAULT_USER_ID,
                       sourced_at |-> "2024-01-15T10:00:00Z"]]
    /\ submits = Cardinality(Workers)

NextRace ==
    \E w \in Workers :
        \/ ParsedOne(w)
        \/ Checked(w)
        \/ Added(w)
        \/ Attached(w)
        \/ StoreReturn(w)

SpecRace == InitRace /\ [][NextRace]_vars

----------------------------------------------------------------------------
(* _is_duplicate on its own: the embedding succeeds, the store returns one *)
(* neighbour with a score and, or not, a stored text.                      *)

\* "project uses": half of ContentA's words
ContentE == Spaced(<<Word("project", 7, FALSE), Word("uses", 4, FALSE)>>)

ProbeTexts == {ContentA, ContentB, ContentC, ContentD, ContentE}

\* scores in thousandths
ProbeScores == {0, 500} \cup 700..1000

InitDedup ==
    /\ hybrid = None
    /\ InitRest
    /\ pc = [w \in Workers |-> "idle"]
    /\ params = [w \in Workers |-> NoParams]
    /\ submits = 0
    /\ \E score \in ProbeScores, text \in ProbeTexts, existing \in ProbeTexts \cup {<<>>} :
          probe = [score |-> score, text |-> text, existing |-> existing,
                   called |-> FALSE, duplicate |-> FALSE]

\* _is_duplicate(collection, text) with the neighbour the store returned
Probe ==
    /\ probe.called = FALSE
    /\ LET payload == IF probe.existing = <<>>
                      THEN [user_id |-> DEFAULT_USER_ID]
                      ELSE [user_id |-> DEFAULT_USER_ID, data |-> probe.existing]
           answer == [tag |-> "ok",
                      results |-> <<[score |-> probe.score, payload |-> payload]>>]
       IN  probe' = [probe EXCEPT !.called = TRUE,
                                  !.duplicate = _is_duplicate(probe.text, "ok", answer).val]
    /\ UNCHANGED <<pc, params, _memories, built, outcome, stage, calls, responses, data,
                   prompt, external, facts, idx, stored, skipped, checks, add_result,
                   points, submits, hybrid>>

NextDedup == Probe

SpecDedup == InitDedup /\ [][NextDedup]_vars

----------------------------------------------------------------------------
(* _upsert_sparse_vector on its own: a collection that holds points, any   *)
(* add result, the call made once and again.                               *)

MaxItems == 2
MaxRounds == 3

\* ids an add result may name; the last is the id of no point of the store
ItemIds == {1, 3, 5}

\* the items of add_result["results"]: with or without id, with or without
\* event
ItemPool ==
    { [id |-> i, event |-> e] : i \in ItemIds, e \in {"ADD", "UPDATE", "NONE"} }
    \cup { [event |-> e] : e \in {"ADD", "UPDATE", "NONE"} }
    \cup { [id |-> i] : i \in ItemIds }

\* add_result.get("results", []); a result that is no dict gives []
AddResults == UNION { [1..n -> ItemPool] : n \in 0..MaxItems }

\* the collection after store_facts stored the fact
StoredFact(pts, content) ==
    LET fact == CHOOSE f \in FactPool : f.content = content /\ Keeps(f)
    IN  Append(pts, NewPoint(pts, fact, DEFAULT_USER_ID,
                             Metadata(fact, [sourced_at |-> Today]).val))

\* three points, the second with a sparse vector already
SeededStore ==
    PutSparse(StoredFact(StoredFact(StoredFact(<<>>, ContentA), ContentB), ContentC),
              <<2>>, ContentB)

InitSparse ==
    /\ hybrid = None
    /\ _memories = {DEFAULT_COLLECTION}
    /\ built = [c \in Collections |-> IF c = DEFAULT_COLLECTION THEN 1 ELSE 0]
    /\ outcome = [w \in Workers |-> NoOutcome]
    /\ stage = [w \in Workers |-> "none"]
    /\ calls = [w \in Workers |-> 0]
    /\ responses = [w \in Workers |-> <<>>]
    /\ data = [w \in Workers |-> <<>>]
    /\ prompt = [w \in Workers |-> None]
    /\ external = [w \in Workers |-> 0]
    /\ idx = [w \in Workers |-> 1]
    /\ stored = [w \in Workers |-> 0]
    /\ skipped = [w \in Workers |-> 0]
    /\ checks = [w \in Workers |-> <<>>]
    /\ submits = 0
    /\ pc = [w \in Workers |-> IF w = Caller THEN "attach" ELSE "idle"]
    /\ params = [w \in Workers |->
                    IF w = Caller
                    THEN [NoParams EXCEPT !.collection = DEFAULT_COLLECTION,
                                          !.user_id = DEFAULT_USER_ID]
                    ELSE NoParams]
    /\ points = [c \in Collections |->
                    IF c = DEFAULT_COLLECTION THEN SeededStore ELSE <<>>]
    /\ \E content \in {ContentA, ContentC} :
          facts = [w \in Workers |->
                     IF w = Caller
                     THEN <<CHOOSE f \in FactPool : f.content = content /\ Keeps(f)>>
                     ELSE <<>>]
    /\ \E results \in AddResults :
          add_result = [w \in Workers |-> IF w = Caller THEN results ELSE <<>>]
    /\ probe = [before |-> SeededStore, puts |-> <<>>, rounds |-> 0, done |-> 0]

\* _upsert_sparse_vector(collection, add_result, text), the encoder and the
\* store behaving as `sparse` says; probe logs the PUTs sent
Attach(w) ==
    /\ pc[w] = "attach"
    /\ probe.rounds < MaxRounds
    /\ \E sparse \in SparseOutcomes :
          /\ points' = [points EXCEPT ![params[w].collection] =
                          Upserted(@, add_result[w], facts[w][idx[w]].content, sparse)]
          /\ probe' = [probe EXCEPT !.puts = @ \o PutsSent(add_result[w], sparse),
                                    !.rounds = @ + 1,
                                    !.done = IF sparse = "ok" THEN @ + 1 ELSE @]
    /\ UNCHANGED <<pc, params, _memories, built, outcome, stage, calls, responses, data,
                   prompt, external, facts, idx, stored, skipped, checks, add_result,
                   submits, hybrid>>

NextSparse == \E w \in Workers : Attach(w)

SpecSparse == InitSparse /\ [][NextSparse]_vars

----------------------------------------------------------------------------
(* hybrid_search (extract.py:74-109): expansion, one dense and one sparse  *)
(* leg per variant, the fusion query.                                      *)

_PREFETCH_LIMIT == 20
ExpandLimit == 3
MaxOutput == 4

\* the filter with the current field name only
user_filter_current_name(user_id) ==
    [should |-> <<[key |-> "user_id", value |-> user_id]>>]

\* extract.py:84-89
user_filter(user_id) ==
    [should |-> <<[key |-> "user_id", value |-> user_id],
                  [key |-> "userId", value |-> user_id]>>]

\* the store's reading of a filter with "should" only: at least one of the
\* conditions matches the payload
Matches(filter, point) ==
    \E k \in DOMAIN filter.should :
        get(point.payload, filter.should[k].key, None) = filter.should[k].value

\* the elements of the JSON list the model may answer with: strings and
\* values that are no strings
OutputItems == { [type |-> "str", val |-> "alt"], [type |-> "int", val |-> "7"] }

\* what the expansion call gives: no client (os.environ["GEMINI_API_KEY"]
\* raises KeyError), an API error, or a response in one of the shapes
\* _expand_queries tells apart
ExpandOutputs ==
    { [tag |-> t] : t \in {"KeyError", "APIError", "no_candidates", "no_content",
                           "no_parts", "empty_text", "invalid_json", "json_object"} }
    \cup { [tag |-> "json_list", items |-> list] :
             list \in UNION { [1..n -> OutputItems] : n \in 0..MaxOutput } }

\* sequence[:n]
Take(sequence, n) ==
    IF Len(sequence) <= n THEN sequence ELSE SubSeq(sequence, 1, n)

\* the expansion without its slice
ExpandUnsliced(query, output) ==
    CASE output.tag \in {"KeyError", "APIError"} -> Raised(output.tag)
      [] output.tag = "json_list" ->
            LET strings == SelectSeq(output.items, LAMBDA item : item.type = "str")
            IN  Returned(<<query>> \o [j \in 1..Len(strings) |-> strings[j].val])
      [] OTHER -> Returned(<<query>>)

\* extract.py:275-294.  KeyError and the API's errors are not among the
\* exceptions caught at extract.py:292; IndexError, AttributeError and
\* JSONDecodeError are, and a value that is no list falls through
_expand_queries(query, output) ==
    CASE output.tag \in {"KeyError", "APIError"} -> Raised(output.tag)
      [] output.tag = "json_list" ->
            LET strings == SelectSeq(output.items, LAMBDA item : item.type = "str")
                extras == Take([j \in 1..Len(strings) |-> strings[j].val], ExpandLimit)
            IN  Returned(<<query>> \o extras)
      [] OTHER -> Returned(<<query>>)

EncoderOutcomes == {"ok", "StopIteration", "RuntimeError"}

\* extract.py:311-319
_sparse_encode(encoder) == IF encoder = "ok" THEN "sparse" ELSE None

\* extract.py:92-99: the legs one variant adds to prefetch
Legs(variant, filter, dense, sparse) ==
    (IF dense # None
     THEN <<[query |-> variant, limit |-> _PREFETCH_LIMIT, filter |-> filter]>>
     ELSE <<>>)
    \o (IF sparse # None
        THEN <<[query |-> variant, using |-> "sparse", limit |-> _PREFETCH_LIMIT,
                filter |-> filter]>>
        ELSE <<>>)

\* the points a leg can bring: those its filter matches and, for a sparse
\* leg, that have a sparse vector
Candidates(pts, leg) ==
    { i \in 1..Len(pts) :
        /\ Matches(leg.filter, pts[i])
        /\ "using" \in DOMAIN leg => pts[i].sparse # <<>> }

\* the store's answers to the fusion query of extract.py:104-108: the
\* points the legs brought, fused in an order the store decides, `limit`
\* of them at most
StoreAnswers(pts, prefetch, limit) ==
    LET found == UNION { Candidates(pts, prefetch[k]) : k \in DOMAIN prefetch }
        n == IF Cardinality(found) <= limit THEN Cardinality(found) ELSE limit
    IN  { [j \in 1..n |-> pts[order[j]]] :
            order \in { f \in [1..n -> found] :
                          \A a, b \in 1..n : a # b => f[a] # f[b] } }

\* the points the searches run over: the two users, each with a point under
\* the current field name and one under the former name, with and without
\* sparse vector
SearchStore ==
    <<[id |-> 1, vector |-> ContentA, sparse |-> ContentA,
       payload |-> [data |-> ContentA, user_id |-> "developer"]],
      [id |-> 2, vector |-> ContentB, sparse |-> <<>>,
       payload |-> [data |-> ContentB, userId |-> "developer"]],
      [id |-> 3, vector |-> ContentC, sparse |-> ContentC,
       payload |-> [data |-> ContentC, user_id |-> "alice"]],
      [id |-> 4, vector |-> ContentD, sparse |-> <<>>,
       payload |-> [data |-> ContentD, userId |-> "alice"]]>>

Limits == {1, 5}

InitSearch ==
    /\ _memories = {DEFAULT_COLLECTION}
    /\ built = [c \in Collections |-> IF c = DEFAULT_COLLECTION THEN 1 ELSE 0]
    /\ outcome = [w \in Workers |-> NoOutcome]
    /\ stage = [w \in Workers |-> "none"]
    /\ calls = [w \in Workers |-> 0]
    /\ responses = [w \in Workers |-> <<>>]
    /\ data = [w \in Workers |-> <<>>]
    /\ prompt = [w \in Workers |-> None]
    /\ external = [w \in Workers |-> 0]
    /\ facts = [w \in Workers |-> <<>>]
    /\ idx = [w \in Workers |-> 1]
    /\ stored = [w \in Workers |-> 0]
    /\ skipped = [w \in Workers |-> 0]
    /\ checks = [w \in Workers |-> <<>>]
    /\ add_result = [w \in Workers |-> <<>>]
    /\ submits = 0
    /\ pc = [w \in Workers |-> "idle"]
    /\ params = [w \in Workers |-> NoParams]
    /\ probe = None
    /\ points = [c \in Collections |->
                    IF c = DEFAULT_COLLECTION THEN SearchStore ELSE <<>>]
    /\ \E user_id \in Users, limit \in Limits, expand \in BOOLEAN :
          hybrid = [pc |-> "expand", at |-> "none",
                    collection |-> DEFAULT_COLLECTION, query |-> "q",
                    user_id |-> user_id, limit |-> limit, expand |-> expand,
                    output |-> [tag |-> "none"], llm_calls |-> 0,
                    queries |-> <<>>, tried |-> <<>>, prefetch |-> <<>>,
                    result |-> NoOutcome]

HybridUnchanged ==
    UNCHANGED <<pc, params, _memories, built, outcome, stage, calls, responses, data,
                prompt, external, facts, idx, stored, skipped, checks, add_result,
                points, submits, probe>>

\* extract.py:82: queries = _expand_queries(query) if expand else (query,)
Expand ==
    /\ hybrid.pc = "expand"
    /\ IF ~hybrid.expand
       THEN hybrid' = [hybrid EXCEPT !.pc = "legs", !.at = "expand",
                                     !.queries = <<hybrid.query>>]
       ELSE \E output \in ExpandOutputs :
              LET queries == _expand_queries(hybrid.query, output)
                  made == IF output.tag = "KeyError" THEN 0 ELSE 1
              IN  IF queries.kind = "raise"
                  THEN hybrid' = [hybrid EXCEPT !.pc = "failed", !.at = "expand",
                                                !.output = output, !.llm_calls = made,
                                                !.result = queries]
                  ELSE hybrid' = [hybrid EXCEPT !.pc = "legs", !.at = "expand",
                                                !.output = output, !.llm_calls = made,
                                                !.queries = queries.val]
    /\ HybridUnchanged

\* extract.py:91-99: one turn of the loop over the variants
Leg ==
    /\ hybrid.pc = "legs"
    /\ Len(hybrid.tried) < Len(hybrid.queries)
    /\ \E embed \in EmbedOutcomes, encoder \in EncoderOutcomes :
          LET variant == hybrid.queries[Len(hybrid.tried) + 1]
              dense == _embed_text(embed)
              sparse == _sparse_encode(encoder)
          IN  IF dense.kind = "raise"
              THEN hybrid' = [hybrid EXCEPT !.pc = "failed", !.at = "legs",
                                            !.result = dense]
              ELSE hybrid' = [hybrid EXCEPT
                                !.at = "legs",
                                !.tried = Append(@, [dense |-> dense.val # None,
                                                     sparse |-> sparse # None]),
                                !.prefetch = @ \o Legs(variant, user_filter(hybrid.user_id),
                                                       dense.val, sparse)]
    /\ HybridUnchanged

FusionOutcomes == {"ok", "HTTPError"}

\* extract.py:101-109: nothing to fuse, or the fusion query
Fuse ==
    /\ hybrid.pc = "legs"
    /\ Len(hybrid.tried) = Len(hybrid.queries)
    /\ IF hybrid.prefetch = <<>>
       THEN hybrid' = [hybrid EXCEPT !.pc = "done", !.at = "legs",
                                     !.result = Returned(<<>>)]
       ELSE \E answer \in FusionOutcomes :
              IF answer = "HTTPError"
              THEN hybrid' = [hybrid EXCEPT !.pc = "failed", !.at = "query",
                                            !.result = Raised(answer)]
              ELSE \E found \in StoreAnswers(points[hybrid.collection],
                                             hybrid.prefetch, hybrid.limit) :
                      hybrid' = [hybrid EXCEPT !.pc = "done", !.at = "query",
                                               !.result = Returned(found)]
    /\ HybridUnchanged

NextSearch == Expand \/ Leg \/ Fuse

SpecSearch == InitSearch /\ [][NextSearch]_vars

----------------------------------------------------------------------------
(* POST /add from the request body on: the handler parses, starts the     *)
(* worker or not, and responds; the worker runs _add_memory as the code   *)
(* has it.                                                                 *)

\* what json.loads makes of a body
NotJson == [kind |-> "JSONDecodeError"]
JsonList == [kind |-> "list"]
JsonDict(value) == [kind |-> "dict", value |-> value]

\* the bodies of the requests: raw is the body as received, json what
\* json.loads(raw) gives
Bodies ==
    { [raw |-> raw, json |-> NotJson] :
        raw \in {<<>>, <<Space(3)>>, MkText(2, 3, FALSE, 0, 0), MkText(15, 6, FALSE, 0, 0)} }
    \cup
    { [raw |-> MkText(3, 5, FALSE, 0, 0), json |-> json] :
        json \in {JsonList, JsonDict([query |-> "q"])}
                 \cup { JsonDict([text |-> text]) :
                          text \in {<<>>, <<Space(3)>>, MkText(15, 6, FALSE, 0, 0)} }
                 \cup { JsonDict([text |-> text, domain |-> "gardening",
                                  collection |-> "mem0_alt", user_id |-> "alice",
                                  sourced_at |-> "2024-01-15T10:00:00Z"]) :
                          text \in {<<>>, MkText(14, 7, TRUE, 0, 0)} } }

\* daemon.py:200-220; the plain-text dict has no "sourced_at", which
\* _add_memory reads with params.get("sourced_at", "") (daemon.py:227)
_parse_add_body(body) ==
    IF body.json.kind = "dict" /\ "text" \in DOMAIN body.json.value
    THEN [text |-> body.json.value.text,
          domain |-> get(body.json.value, "domain", DEFAULT_DOMAIN),
          collection |-> get(body.json.value, "collection", DEFAULT_COLLECTION),
          user_id |-> get(body.json.value, "user_id", DEFAULT_USER_ID),
          sourced_at |-> get(body.json.value, "sourced_at", "")]
    ELSE [text |-> body.raw, domain |-> DEFAULT_DOMAIN,
          collection |-> DEFAULT_COLLECTION, user_id |-> DEFAULT_USER_ID,
          sourced_at |-> ""]

\* a handler that starts a worker for every body
StartsWorkerAlways(body) == TRUE

\* daemon.py:95-104: the two early returns of _handle_add
StartsWorker(body) ==
    /\ strip(body.raw) # <<>>
    /\ _parse_add_body(body).text # <<>>

NoRequest == [at |-> "idle", body |-> [raw |-> <<>>, json |-> NotJson],
              started |-> 0, code |-> 0, seen |-> "none"]

InitAccept ==
    /\ hybrid = None
    /\ InitRest
    /\ probe = [w \in Workers |-> NoRequest]
    /\ pc = [w \in Workers |-> "idle"]
    /\ params = [w \in Workers |-> NoParams]
    /\ submits = 0

\* daemon.py:94-106: _handle_add up to Thread(...).start()
Accept(w) ==
    /\ probe[w].at = "idle"
    /\ \E body \in Bodies :
          IF StartsWorker(body)
          THEN /\ probe' = [probe EXCEPT ![w] =
                              [@ EXCEPT !.at = "respond", !.body = body, !.started = 1]]
               /\ params' = [params EXCEPT ![w] = _parse_add_body(body)]
               /\ pc' = [pc EXCEPT ![w] = "get_memory"]
               /\ submits' = submits + 1
          ELSE /\ probe' = [probe EXCEPT ![w] = [@ EXCEPT !.at = "respond", !.body = body]]
               /\ UNCHANGED <<params, pc, submits>>
    /\ UNCHANGED <<_memories, built, outcome, stage, calls, responses, data, prompt,
                   external, facts, idx, stored, skipped, checks, add_result, points,
                   hybrid>>

\* daemon.py:96, 103, 107: self._respond(204, ""); seen is where the worker
\* stood when the response left
Respond(w) ==
    /\ probe[w].at = "respond"
    /\ probe' = [probe EXCEPT ![w] = [@ EXCEPT !.at = "responded", !.code = 204,
                                               !.seen = pc[w]]]
    /\ UNCHANGED <<pc, params, _memories, built, outcome, stage, calls, responses, data,
                   prompt, external, facts, idx, stored, skipped, checks, add_result,
                   points, submits, hybrid>>

NextAccept ==
    \E w \in Workers :
        \/ Accept(w)
        \/ Respond(w)
        \/ _get_memory(w)
        \/ build_memory(w)
        \/ ExtractGate(w)
        \/ BuildPrompt(w)
        \/ StoreReturn(w)

SpecAccept == InitAccept /\ [][NextAccept]_vars

----------------------------------------------------------------------------
(* Two /add workers from the model call on, every service answering or    *)
(* failing, with the handler of _add_memory (daemon.py:240-241).          *)

\* the exception that left the body of _add_memory: the one extract_facts
\* raised, the one the duplicate check raised, or whatever memory.add, the
\* metadata or build_memory raised
Failure(w) ==
    IF outcome[w].kind = "raise" THEN outcome[w].exc
    ELSE IF checks[w] # <<>> /\ checks[w][Len(checks[w])].kind = "raise"
    THEN checks[w][Len(checks[w])].exc
    ELSE "Exception"

\* the exceptions of the model, all of them subclasses of Exception
ExceptionClasses ==
    {"Exception", "TypeError", "ValueError", "KeyError", "AttributeError",
     "IndexError", "JSONDecodeError", "HTTPError", "APIError"}

\* a handler for the failures of the two services only
CatchesServiceErrors(exc) == exc \in {"APIError", "HTTPError"}

\* daemon.py:240: except Exception
Catches(exc) == exc \in ExceptionClasses

\* daemon.py:240-241: the handler logs the failure and the thread ends; an
\* exception it does not catch leaves the thread
Caught(w) ==
    /\ pc[w] = "failed"
    /\ pc' = [pc EXCEPT ![w] = IF Catches(Failure(w)) THEN "logged" ELSE "escaped"]
    /\ UNCHANGED <<params, _memories, built, outcome, stage, calls, responses, data,
                   prompt, external, facts, idx, stored, skipped, checks, add_result,
                   points, submits, probe, hybrid>>

\* any answer of the model but an object with several candidates
GenerateOne(w) ==
    \E response \in { r \in Responses :
                        r.tag = "json_object" => Len(get(r, "facts", <<>>)) <= 1 } :
        GenerateWith(w, response)

NextIsolate ==
    \E w \in Workers :
        \/ GenerateOne(w)
        \/ CheckDuplicate(w)
        \/ AddFact(w)
        \/ _upsert_sparse_vector(w)
        \/ StoreReturn(w)
        \/ Caught(w)

SpecIsolate == InitRace /\ [][NextIsolate]_vars

----------------------------------------------------------------------------
(* code-recall-reingest (reingest.py): main wipes the default collection, *)
(* then re-ingests the transcripts.  A search of the daemon reads the     *)
(* collection once the wipe has returned.                                  *)

MaxExchanges == 2

\* the store's answer to GET /collections/{collection}
GetOutcomes == {"200", "503", "HTTPError"}

\* the store's answer to POST .../points/delete: the delete is carried
\* out, the store answers with an error status, the request fails
DeleteOutcomes == {"ok", "error_status", "HTTPError"}

InitReingest ==
    /\ _memories = {DEFAULT_COLLECTION}
    /\ built = [c \in Collections |-> IF c = DEFAULT_COLLECTION THEN 1 ELSE 0]
    /\ outcome = [w \in Workers |-> NoOutcome]
    /\ stage = [w \in Workers |-> "none"]
    /\ calls = [w \in Workers |-> 0]
    /\ responses = [w \in Workers |-> <<>>]
    /\ data = [w \in Workers |-> <<>>]
    /\ prompt = [w \in Workers |-> None]
    /\ external = [w \in Workers |-> 0]
    /\ facts = [w \in Workers |-> <<>>]
    /\ idx = [w \in Workers |-> 1]
    /\ stored = [w \in Workers |-> 0]
    /\ skipped = [w \in Workers |-> 0]
    /\ checks = [w \in Workers |-> <<>>]
    /\ add_result = [w \in Workers |-> <<>>]
    /\ submits = 0
    /\ pc = [w \in Workers |-> "idle"]
    /\ params = [w \in Workers |-> NoParams]
    /\ \E initial \in {<<>>, SearchStore}, dry_run \in BOOLEAN, wipe_only \in BOOLEAN :
          /\ points = [c \in Collections |->
                          IF c = DEFAULT_COLLECTION THEN initial ELSE <<>>]
          /\ probe = [pc |-> "wipe", dry_run |-> dry_run, wipe_only |-> wipe_only,
                      before |-> initial, wiped |-> "no", memory |-> None,
                      left |-> MaxExchanges, count |-> 0]
    /\ \E user_id \in Users, limit \in Limits :
          hybrid = [pc |-> "expand", at |-> "none",
                    collection |-> DEFAULT_COLLECTION, query |-> "q",
                    user_id |-> user_id, limit |-> limit, expand |-> FALSE,
                    output |-> [tag |-> "none"], llm_calls |-> 0,
                    queries |-> <<>>, tried |-> <<>>, prefetch |-> <<>>,
                    result |-> NoOutcome]

ReingestUnchanged ==
    UNCHANGED <<pc, params, _memories, built, outcome, stage, calls, responses, data,
                prompt, external, facts, idx, stored, skipped, checks, add_result,
                submits, hybrid>>

\* reingest.py:98-106: the collection is looked up and its points counted;
\* no delete when the answer is not 200 or the count is 0
WipeGet ==
    /\ probe.pc = "wipe"
    /\ \E answer \in GetOutcomes :
          probe' = [probe EXCEPT
                      !.pc = CASE answer = "HTTPError" -> "failed"
                               [] answer # "200" -> "wiped"
                               [] Len(points[DEFAULT_COLLECTION]) = 0 -> "wiped"
                               [] OTHER -> "delete",
                      !.wiped = CASE answer = "HTTPError" -> "no"
                                  [] answer # "200" -> "not found"
                                  [] Len(points[DEFAULT_COLLECTION]) = 0 -> "already empty"
                                  [] OTHER -> "no"]
    /\ UNCHANGED points
    /\ ReingestUnchanged

\* reingest.py:108-113: the delete by the empty filter; the response is
\* not read, only a failed request raises
WipeDelete ==
    /\ probe.pc = "delete"
    /\ \E answer \in DeleteOutcomes :
          /\ points' = [points EXCEPT ![DEFAULT_COLLECTION] =
                           IF answer = "ok" THEN <<>> ELSE @]
          /\ probe' = [probe EXCEPT !.pc = IF answer = "HTTPError" THEN "failed" ELSE "wiped",
                                    !.wiped = IF answer = "HTTPError" THEN "no" ELSE "wiped"]
    /\ ReingestUnchanged

\* a search of the collection after the wipe has returned and before main
\* goes on (extract.py:74-109)
SearchWiped ==
    /\ probe.pc = "wiped"
    /\ NextSearch

\* reingest.py:50-56: return after the wipe with --wipe-only; otherwise
\* memory is None with --dry-run and the store handle without
Proceed ==
    /\ probe.pc = "wiped"
    /\ probe' = [probe EXCEPT
                   !.pc = IF probe.wipe_only THEN "done" ELSE "reingest",
                   !.memory = IF probe.wipe_only \/ probe.dry_run THEN None ELSE "memory"]
    /\ UNCHANGED points
    /\ ReingestUnchanged

\* store_facts for the facts of one exchange (reingest.py:83-88), every
\* duplicate check answering "new" and every add succeeding
RECURSIVE StoreAll(_, _, _)
StoreAll(pts, list, timestamp) ==
    IF list = <<>> THEN pts
    ELSE StoreAll(Append(pts, NewPoint(pts, Head(list), DEFAULT_USER_ID,
                                       Metadata(Head(list), [sourced_at |-> timestamp]).val)),
                  Tail(list), timestamp)

\* reingest.py:80-91: one exchange of a transcript.  extract_facts is
\* called with domain and reference_date (reingest.py:82); a TypeError is
\* not retried by _GEMINI_RETRY (reingest.py:30-33) and leaves main
Exchange ==
    /\ probe.pc = "reingest"
    /\ probe.left > 0
    /\ \E text \in RequestTexts, timestamp \in SourcedAts :
          LET built_prompt == build_prompt(<<DEFAULT_DOMAIN, parse_timestamp(timestamp)>>)
          IN  IF GateRejects(text)
              THEN /\ probe' = [probe EXCEPT !.left = @ - 1]
                   /\ UNCHANGED points
              ELSE IF built_prompt.kind = "raise"
              THEN /\ probe' = [probe EXCEPT !.pc = "failed"]
                   /\ UNCHANGED points
              ELSE \E list \in FactLists :
                     LET extracted == PostFilter(list)
                     IN  /\ probe' = [probe EXCEPT !.left = @ - 1,
                                                   !.count = @ + Len(extracted)]
                         /\ points' = [points EXCEPT ![DEFAULT_COLLECTION] =
                                          IF extracted # <<>> /\ probe.memory # None
                                          THEN StoreAll(@, extracted, timestamp)
                                          ELSE @]
    /\ ReingestUnchanged

\* reingest.py:69-70: every transcript has been read
Finish ==
    /\ probe.pc = "reingest"
    /\ probe.left = 0
    /\ probe' = [probe EXCEPT !.pc = "done"]
    /\ UNCHANGED points
    /\ ReingestUnchanged

NextReingest ==
    \/ WipeGet
    \/ WipeDelete
    \/ SearchWiped
    \/ Proceed
    \/ Exchange
    \/ Finish

SpecReingest == InitReingest /\ [][NextReingest]_vars

----------------------------------------------------------------------------
(* The workflow-state mode: _capture_workflow_state (daemon.py:244-272)    *)
(* with extract_workflow_state (extract.py:167-186), and the files of the *)
(* workspace.                                                              *)

MinStateLen == 50

\* "No active workflow."
Sentinel ==
    Spaced(<<Word("no", 2, TRUE), Word("active", 6, FALSE), Word("workflow.", 9, FALSE)>>)

\* "## Task" and two more words: a workflow state worth writing
Markdown ==
    Spaced(<<Word("##", 2, FALSE), Word("task", 4, TRUE), Word("refactor", 8, FALSE),
             Word("parser", 6, FALSE)>>)

\* the texts a state is extracted from: around the 50 characters of
\* extract.py:173, blanks counted or not
StateTexts ==
    { <<Word("w01", 49, FALSE)>>, <<Word("w01", 50, FALSE)>>,
      <<Space(3), Word("w01", 49, FALSE), Space(3)>>, MkText(15, 6, FALSE, 0, 0) }

\* what generate_content gives in this mode: an error, a response without
\* candidates, a candidate without parts, or a candidate with a text
StateResponses ==
    { [tag |-> t] : t \in {"KeyError", "APIError", "HTTPError", "no_candidates", "no_parts"} }
    \cup { [tag |-> "text", text |-> text] :
             text \in { <<>>, <<Space(2)>>, Sentinel, <<Space(1)>> \o Sentinel \o <<Space(1)>>,
                        [i \in 1..Len(Sentinel) |-> lower(Sentinel[i])],
                        SubSeq(Sentinel, 1, 3), Markdown } }

\* extract.py:167-186: the state and the number of model calls made
extract_workflow_state(text, response) ==
    IF text = <<>> \/ len(strip(text)) < MinStateLen
    THEN [kind |-> "return", val |-> <<>>, calls |-> 0]
    ELSE CASE response.tag = "KeyError" -> [kind |-> "raise", exc |-> "KeyError", calls |-> 0]
           [] response.tag \in {"APIError", "HTTPError"} ->
                 [kind |-> "raise", exc |-> response.tag, calls |-> 1]
           [] response.tag = "no_candidates" -> [kind |-> "return", val |-> <<>>, calls |-> 1]
           [] response.tag = "no_parts" -> [kind |-> "raise", exc |-> "IndexError", calls |-> 1]
           [] OTHER -> [kind |-> "return", val |-> strip(response.text), calls |-> 1]

\* a caller that skips the write for the empty state only
SkipsWriteWhenEmpty(state) == state = <<>>

\* daemon.py:252: not state or state.strip() == "No active workflow."
SkipsWrite(state) == state = <<>> \/ strip(state) = Sentinel

\* the files of the workspace
Absent == [exists |-> FALSE, content |-> <<>>]
File(content) == [exists |-> TRUE, content |-> content]

\* the state WORKFLOW_STATE.md holds from an earlier capture
PreviousState == Spaced(<<Word("##", 2, FALSE), Word("done", 4, TRUE)>>)

\* daemon.py:256: WORKFLOW_STATE.md in the workspace
TargetPath == "target"

\* a capture that writes straight into WORKFLOW_STATE.md
InPlacePath == TargetPath

\* daemon.py:259: the path mkstemp creates in the workspace
TempPath == "tmp"

OsOutcomes == {"ok", "OSError"}
WriteOutcomes == {"ok", "OSError", "UnicodeEncodeError"}

InitState ==
    /\ hybrid = None
    /\ InitRest
    /\ pc = [w \in Workers |-> "idle"]
    /\ params = [w \in Workers |-> NoParams]
    /\ submits = 0
    /\ \E text \in StateTexts, before \in {Absent, File(PreviousState)} :
          probe = [pc |-> "extract", text |-> text, calls |-> 0, state |-> <<>>,
                   before |-> before,
                   files |-> [path \in {TargetPath, TempPath} |->
                                 IF path = TargetPath THEN before ELSE Absent],
                   tmp_path |-> "", failed |-> "none", unlink |-> "none"]

StateUnchanged ==
    UNCHANGED <<pc, params, _memories, built, outcome, stage, calls, responses, data,
                prompt, external, facts, idx, stored, skipped, checks, add_result,
                points, submits, hybrid>>

\* daemon.py:246-254: extract the state; APIError and httpx.HTTPError are
\* logged, any other exception leaves the thread; an empty state or the
\* sentinel ends the capture
Capture ==
    /\ probe.pc = "extract"
    /\ \E response \in StateResponses :
          LET state == extract_workflow_state(probe.text, response)
          IN  probe' = [probe EXCEPT
                          !.calls = @ + state.calls,
                          !.state = IF state.kind = "return" THEN state.val ELSE @,
                          !.pc = CASE state.kind = "raise"
                                        /\ state.exc \in {"APIError", "HTTPError"} -> "done"
                                   [] state.kind = "raise" -> "escaped"
                                   [] SkipsWrite(state.val) -> "done"
                                   [] OTHER -> "mkstemp"]
    /\ StateUnchanged

\* daemon.py:259: tempfile.mkstemp(dir=workspace, suffix=".tmp")
Mkstemp ==
    /\ probe.pc = "mkstemp"
    /\ \E os \in OsOutcomes :
          IF os = "ok"
          THEN probe' = [probe EXCEPT !.files[TempPath] = File(<<>>),
                                      !.tmp_path = TempPath, !.pc = "write"]
          ELSE probe' = [probe EXCEPT !.failed = "mkstemp", !.pc = "cleanup"]
    /\ StateUnchanged

\* daemon.py:260-261: the state goes to the temporary file piece by piece;
\* the file is closed when the last piece is in
Write ==
    /\ probe.pc = "write"
    /\ LET written == probe.files[probe.tmp_path].content
       IN  \E os \in WriteOutcomes :
             CASE os = "OSError" -> probe' = [probe EXCEPT !.failed = "write", !.pc = "cleanup"]
               [] os = "UnicodeEncodeError" -> probe' = [probe EXCEPT !.pc = "escaped"]
               [] OTHER ->
                    probe' = [probe EXCEPT
                                !.files[probe.tmp_path] =
                                    File(Append(written, probe.state[Len(written) + 1])),
                                !.pc = IF Len(written) + 1 = Len(probe.state)
                                       THEN "rename" ELSE "write"]
    /\ StateUnchanged

\* daemon.py:262: os.rename(tmp_path, target)
Rename ==
    /\ probe.pc = "rename"
    /\ \E os \in OsOutcomes :
          IF os = "ok"
          THEN probe' = [probe EXCEPT !.files[TargetPath] = probe.files[probe.tmp_path],
                                      !.files[probe.tmp_path] =
                                          IF probe.tmp_path = TargetPath THEN @ ELSE Absent,
                                      !.pc = "done"]
          ELSE probe' = [probe EXCEPT !.failed = "rename", !.pc = "cleanup"]
    /\ StateUnchanged

\* daemon.py:263-270: the handler of OSError removes the temporary file if
\* one was created; a failure of the removal is passed over
Cleanup ==
    /\ probe.pc = "cleanup"
    /\ IF probe.tmp_path = ""
       THEN probe' = [probe EXCEPT !.pc = "done"]
       ELSE \E os \in OsOutcomes :
              IF os = "ok"
              THEN probe' = [probe EXCEPT !.files[probe.tmp_path] = Absent,
                                          !.unlink = "ok", !.pc = "done"]
              ELSE probe' = [probe EXCEPT !.unlink = "OSError", !.pc = "done"]
    /\ StateUnchanged

NextState == Capture \/ Mkstemp \/ Write \/ Rename \/ Cleanup

SpecState == InitState /\ [][NextState]_vars

----------------------------------------------------------------------------
(* The same submission by one user in two collections that differ only in *)
(* what another user stored, every service answering.                     *)

\* the submitting user, and the collection each worker writes to
Submitter == "alice"
World == [w \in Workers |-> IF w = Caller THEN DEFAULT_COLLECTION ELSE "mem0_alt"]

InitWorlds ==
    /\ hybrid = None
    /\ _memories = {DEFAULT_COLLECTION}
    /\ built = [c \in Collections |-> IF c = DEFAULT_COLLECTION THEN 1 ELSE 0]
    /\ outcome = [w \in Workers |-> NoOutcome]
    /\ stage = [w \in Workers |-> "none"]
    /\ calls = [w \in Workers |-> 0]
    /\ responses = [w \in Workers |-> <<>>]
    /\ data = [w \in Workers |-> <<>>]
    /\ prompt = [w \in Workers |-> None]
    /\ external = [w \in Workers |-> 0]
    /\ facts = [w \in Workers |-> <<>>]
    /\ idx = [w \in Workers |-> 1]
    /\ stored = [w \in Workers |-> 0]
    /\ skipped = [w \in Workers |-> 0]
    /\ checks = [w \in Workers |-> <<>>]
    /\ add_result = [w \in Workers |-> <<>>]
    /\ probe = None
    /\ pc = [w \in Workers |-> "generate"]
    /\ params = [w \in Workers |->
                    [text |-> MkText(15, 6, FALSE, 0, 0), domain |-> DEFAULT_DOMAIN,
                     collection |-> World[w], user_id |-> Submitter,
                     sourced_at |-> "2024-01-15T10:00:00Z"]]
    /\ submits = Cardinality(Workers)
    /\ \E theirs \in {ContentA, ContentB, ContentC} :
          points = [c \in Collections |->
                      IF c = DEFAULT_COLLECTION THEN StoredFact(<<>>, theirs) ELSE <<>>]

SpecWorlds == InitWorlds /\ [][NextRace]_vars

----------------------------------------------------------------------------
(* The claims.                                                             *)

\* the words of a text as the specification counts them: the distinct
\* lowercased spellings of the words longer than two characters
SpellingsOf(text) ==
    { text[i].w : i \in { j \in DOMAIN text : text[j].w # " " /\ text[j].n > 2 } }

RECURSIVE CharsFrom(_, _)
CharsFrom(text, i) ==
    IF i > Len(text) THEN 0 ELSE text[i].n + CharsFrom(text, i + 1)

TooWeak(text) == CharsFrom(text, 1) < 100 \/ Cardinality(SpellingsOf(text)) < 15

Accepts(fact) ==
    /\ "specificity_score" \in DOMAIN fact /\ fact.specificity_score >= 3
    /\ ~("temporal_scope" \in DOMAIN fact /\ fact.temporal_scope = "ephemeral")
    /\ "entities" \in DOMAIN fact /\ fact.entities # <<>>

RECURSIVE Subsequence(_)
Subsequence(candidates) ==
    IF candidates = <<>> THEN <<>>
    ELSE (IF Accepts(Head(candidates)) THEN <<Head(candidates)>> ELSE <<>>)
         \o Subsequence(Tail(candidates))

\* the last response of the model parsed to a JSON object
ParsedObject(w) == responses[w] # <<>> /\ responses[w][Len(responses[w])] = "dict"

\* C1: no point persisted through extract_facts and store_facts is
\* ephemeral or has a specificity score below 3
C1_PersistedFactsPassTheFilter ==
    \A c \in Collections : \A i \in 1..Len(points[c]) :
        /\ points[c][i].payload.temporal_scope # "ephemeral"
        /\ points[c][i].payload.specificity_score >= 3

\* C1 witness: the invocation persisted a fact out of a response that also
\* held a candidate that is ephemeral or scores below 3
C1_Witness ==
    \E w \in Workers :
        /\ ParsedObject(w)
        /\ stored[w] >= 1
        /\ points[params[w].collection] # <<>>
        /\ \E i \in DOMAIN data[w] :
              \/ data[w][i].temporal_scope = "ephemeral"
              \/ data[w][i].specificity_score < 3

\* how a duplicate check ended in a failure: it raised, or it met a failure
\* of the embedding service or of the store
CheckFailed(check) == check.kind = "raise" \/ check.failed # "none"

\* C2 as the specification states it: every failure of the duplicate check
\* ends in the answer "not a duplicate", so that the fact goes on to be
\* stored
C2_FailOpen ==
    \A w \in Workers : \A i \in 1..Len(checks[w]) :
        CheckFailed(checks[w][i]) =>
            /\ checks[w][i].kind = "return"
            /\ checks[w][i].val = FALSE

\* C3 as the specification states it: extract_facts never raises; whatever
\* the text, the domain and the reference date, it returns a list
C3_NeverRaises ==
    \A w \in Workers : outcome[w].kind # "raise"

\* C4: at most two calls of the language model per invocation, the second
\* only after a first response that parsed to nothing, and an empty list
\* when both parsed to nothing
C4_BoundedRetry ==
    \A w \in Workers :
        /\ calls[w] <= 2
        /\ Len(responses[w]) = calls[w]
        /\ calls[w] = 2 => responses[w][1] = "None"
        /\ (calls[w] = 2 /\ responses[w][2] = "None")
              => outcome[w] = Returned(<<>>) /\ facts[w] = <<>> /\ stored[w] = 0

\* C4 witness: two calls, both responses unparseable, the empty list returned
C4_Witness ==
    \E w \in Workers :
        /\ calls[w] = 2
        /\ responses[w] = <<"None", "None">>
        /\ outcome[w] = Returned(<<>>)

\* C5: a text shorter than 100 characters, or with fewer than 15 distinct
\* lowercased words longer than 2 characters, makes extract_facts return
\* the empty list without any external call; any other text passes the gate
C5_GateShortCircuit ==
    \A w \in Workers :
        stage[w] # "none" =>
            IF TooWeak(params[w].text)
            THEN /\ stage[w] = "gate"
                 /\ outcome[w] = Returned(<<>>)
                 /\ external[w] = 0
                 /\ calls[w] = 0
            ELSE outcome[w] # Returned(<<>>)

\* C5 witness: a text of 100 characters or more with 14 distinct words was
\* turned away at the gate
C5_Witness ==
    \E w \in Workers :
        /\ stage[w] = "gate"
        /\ CharsFrom(params[w].text, 1) >= 100
        /\ Cardinality(SpellingsOf(params[w].text)) = 14
        /\ outcome[w] = Returned(<<>>)

\* C6: the list extract_facts returns is the subsequence of the candidates
\* with a score of at least 3, a scope other than ephemeral and at least
\* one entity, in the order of the response, each fact as it was
C6_PostFilterExact ==
    \A w \in Workers :
        (ParsedObject(w) /\ outcome[w].kind = "return")
            => /\ outcome[w].val = Subsequence(data[w])
               /\ facts[w] = outcome[w].val

\* C6 witness: a response of two different candidates, both kept, in the
\* order of the response
C6_Witness ==
    \E w \in Workers :
        /\ ParsedObject(w)
        /\ Len(data[w]) = 2
        /\ outcome[w].kind = "return"
        /\ Len(outcome[w].val) = 2
        /\ outcome[w].val[1] # outcome[w].val[2]

OnExample(w) ==
    /\ params[w].text = E2EText
    /\ params[w].domain = "developer"

\* C7 as the specification states it: the request carrying the example
\* text ends with exactly one point persisted, whose metadata holds the
\* category, the scope, the score and the joined entities
C7_ExampleStoresOnePoint ==
    \A w \in Workers :
        (OnExample(w) /\ pc[w] = "done")
            => /\ Len(points[params[w].collection]) = 1
               /\ {"category", "temporal_scope", "specificity_score", "entities"}
                     \subseteq DOMAIN points[params[w].collection][1].payload

\* C7, amended: on the example text extract_facts returns the empty list at
\* the entropy gate, the language model is not called, and no point is
\* persisted
C7_ExampleStopsAtGate ==
    \A w \in Workers :
        (OnExample(w) /\ stage[w] # "none")
            => /\ stage[w] = "gate"
               /\ outcome[w] = Returned(<<>>)
               /\ calls[w] = 0
               /\ stored[w] = 0
               /\ points[params[w].collection] = <<>>

\* C7 witness: the request carrying the example text has run to its end
C7_Witness ==
    \E w \in Workers :
        /\ OnExample(w)
        /\ pc[w] = "done"
        /\ CharsFrom(params[w].text, 1) = 105
        /\ Cardinality(SpellingsOf(params[w].text)) = 12

\* C8 as the specification states it: once past prompt construction, an
\* invocation given a reference date holds a prompt that states that date
C8_PromptStatesReferenceDate ==
    \A w \in Workers :
        (stage[w] = "prompt" /\ parse_timestamp(params[w].sourced_at) # None)
            => prompt[w] = parse_timestamp(params[w].sourced_at)

\* the hybrid score the specification gives, 0.7 * cosine + 0.3 * jaccard
\* >= 0.85, with the cosine in thousandths and the jaccard as shared / all
AtLeastThreshold(cosine, shared, all) ==
    7 * cosine * all + 3000 * shared >= 8500 * all

\* C9: with an embedding and a nearest neighbour, _is_duplicate answers
\* true exactly when 0.7 * cosine + 0.3 * jaccard >= 0.85, the jaccard
\* being 0 when the neighbour has no stored text
C9_DecisionBoundary ==
    probe.called =>
        LET mine == SpellingsOf(probe.text)
            theirs == SpellingsOf(probe.existing)
            all == mine \cup theirs
        IN  probe.duplicate =
                IF probe.existing = <<>> \/ mine = {} \/ theirs = {}
                THEN AtLeastThreshold(probe.score, 0, 1)
                ELSE AtLeastThreshold(probe.score, Cardinality(mine \cap theirs),
                                      Cardinality(all))

\* C9 witness: cosine 1.0 and jaccard 1/2, a score of exactly 0.85, was
\* judged a duplicate
C9_Witness ==
    /\ probe.called
    /\ probe.score = 1000
    /\ probe.text = ContentA
    /\ probe.existing = ContentE
    /\ probe.duplicate

\* the points of a collection that hold the content
Holding(c, content) == { i \in 1..Len(points[c]) : points[c][i].payload.data = content }

\* C10 as the specification states it: two invocations, one after the
\* other, that submit the same single fact to the same collection leave
\* exactly one point for that content
C10_SecondSubmissionSuppressed ==
    \A v, w \in Workers :
        (/\ v # w
         /\ pc[v] = "done" /\ pc[w] = "done"
         /\ params[v].collection = params[w].collection
         /\ Len(facts[v]) = 1 /\ facts[v] = facts[w])
            => Cardinality(Holding(params[w].collection, facts[w][1].content)) = 1

\* two workers that each handed one fact to store_facts for the same
\* collection and have returned
BothDone(v, w) ==
    /\ v # w
    /\ pc[v] = "done" /\ pc[w] = "done"
    /\ params[v].collection = params[w].collection
    /\ Len(facts[v]) = 1 /\ Len(facts[w]) = 1

\* C11: nothing serialises the check-then-add of different workers: when
\* the duplicate checks of two concurrent workers both answered "not a
\* duplicate", both facts are persisted, identical content included
C11_BothChecksPassBothPersist ==
    \A v, w \in Workers :
        (BothDone(v, w) /\ ~checks[v][1].val /\ ~checks[w][1].val)
            => /\ Len(points[params[w].collection]) = 2
               /\ Cardinality(Holding(params[w].collection, facts[w][1].content))
                     = IF facts[v][1].content = facts[w][1].content THEN 2 ELSE 1

\* C11 witness: two concurrent workers submitted the same content, with
\* words longer than two characters, and the collection holds it twice
C11_Witness ==
    \E v, w \in Workers :
        /\ BothDone(v, w)
        /\ facts[v][1].content = ContentA
        /\ facts[w][1].content = ContentA
        /\ ~checks[v][1].val /\ ~checks[w][1].val
        /\ Cardinality(Holding(params[w].collection, ContentA)) = 2

\* C12 as the specification states it: the store handle of a collection is
\* built at most once, whatever the interleaving of its first uses
C12_BuiltAtMostOnce ==
    \A c \in Collections : built[c] <= 1

\* the ids an add result reports as created or updated
Reported(results) ==
    { results[j].id : j \in { i \in DOMAIN results :
                                /\ "id" \in DOMAIN results[i]
                                /\ "event" \in DOMAIN results[i]
                                /\ results[i].event \in {"ADD", "UPDATE"} } }

\* C13: a sparse vector is written only to ids the add result reports with
\* event ADD or UPDATE; every other point of the collection stays as it was
C13_SparseTargetsReportedIds ==
    \A w \in Workers :
        pc[w] = "attach" =>
            /\ \A k \in DOMAIN probe.puts : probe.puts[k] \in Reported(add_result[w])
            /\ \A i \in DOMAIN probe.before :
                  probe.before[i].id \notin Reported(add_result[w])
                      => points[params[w].collection][i] = probe.before[i]

\* C13 witness: a PUT went out for a reported id while the add result also
\* named, with another event, a point that exists and was left alone
C13_Witness ==
    \E w \in Workers :
        /\ pc[w] = "attach"
        /\ probe.puts # <<>>
        /\ \E j \in DOMAIN add_result[w] :
              /\ DOMAIN add_result[w][j] = {"id", "event"}
              /\ add_result[w][j].event = "NONE"
              /\ add_result[w][j].id = 3
              /\ add_result[w][j].id \notin Reported(add_result[w])
        /\ points[params[w].collection][3] = probe.before[3]

AttachedOnce(before, results, text) ==
    [i \in DOMAIN before |->
        [id |-> before[i].id, vector |-> before[i].vector, payload |-> before[i].payload,
         sparse |-> IF before[i].id \in Reported(results) THEN text
                    ELSE before[i].sparse]]

\* C15: however many times _upsert_sparse_vector ran with the same
\* collection, add result and content, the collection is what one
\* successful run leaves: same points, dense vectors and payloads, the
\* same sparse vector on the same ids
C15_SparseAttachIdempotent ==
    \A w \in Workers :
        (pc[w] = "attach" /\ probe.done >= 1)
            => points[params[w].collection]
                  = AttachedOnce(probe.before, add_result[w], facts[w][1].content)

\* C15 witness: the call succeeded three times and had points to write to
C15_Witness ==
    \E w \in Workers :
        /\ pc[w] = "attach"
        /\ probe.done = 3
        /\ Len(probe.puts) >= 3
        /\ points[params[w].collection] # probe.before

\* the expansion call ended in anything but a JSON list
ExpansionErrored == hybrid.expand /\ hybrid.output.tag \notin {"none", "json_list"}

\* C16 as the specification states it: whatever goes wrong in the expansion
\* call, the search goes on with the original query as its only variant
C16_ExpansionFailsOpen ==
    (hybrid.at # "none" /\ ExpansionErrored)
        => /\ ~(hybrid.pc = "failed" /\ hybrid.at = "expand")
           /\ hybrid.queries = <<hybrid.query>>

RECURSIVE StringsOf(_)
StringsOf(items) ==
    IF items = <<>> THEN <<>>
    ELSE (IF Head(items).type = "str" THEN <<Head(items).val>> ELSE <<>>)
         \o StringsOf(Tail(items))

\* C17: the variants are the original query followed by the first strings
\* of the model's list, three at most; without expansion they are the
\* original query alone and the model is not called
C17_ExpansionAdditiveBounded ==
    hybrid.queries # <<>> =>
        /\ hybrid.queries[1] = hybrid.query
        /\ Len(hybrid.queries) >= 1 /\ Len(hybrid.queries) <= 4
        /\ ~hybrid.expand => (hybrid.queries = <<hybrid.query>> /\ hybrid.llm_calls = 0)
        /\ LET strings == IF hybrid.output.tag = "json_list"
                          THEN StringsOf(hybrid.output.items) ELSE <<>>
           IN  /\ Len(hybrid.queries) - 1 = (IF Len(strings) < 3 THEN Len(strings) ELSE 3)
               /\ \A j \in 2..Len(hybrid.queries) : hybrid.queries[j] = strings[j - 1]

\* C17 witness: the model answered with four strings and the search ran
\* with four variants
C17_Witness ==
    /\ hybrid.pc = "done"
    /\ hybrid.output.tag = "json_list"
    /\ Len(StringsOf(hybrid.output.items)) = 4
    /\ Len(hybrid.queries) = 4
    /\ hybrid.llm_calls = 1

\* the point is the user's under the current or the former field name
OwnedBy(point, user_id) ==
    \/ "user_id" \in DOMAIN point.payload /\ point.payload.user_id = user_id
    \/ "userId" \in DOMAIN point.payload /\ point.payload.userId = user_id

\* C18: every leg carries the same filter, which matches a point exactly
\* when its user_id or its userId is the caller's; no point returned is
\* another user's under both names
C18_LegsFilterByUser ==
    /\ \A k \in DOMAIN hybrid.prefetch :
          /\ hybrid.prefetch[k].filter = hybrid.prefetch[1].filter
          /\ \A i \in DOMAIN points[hybrid.collection] :
                Matches(hybrid.prefetch[k].filter, points[hybrid.collection][i])
                    <=> OwnedBy(points[hybrid.collection][i], hybrid.user_id)
    /\ (hybrid.pc = "done" =>
          \A j \in DOMAIN hybrid.result.val : OwnedBy(hybrid.result.val[j], hybrid.user_id))

\* C18 witness: a search with dense and sparse legs of several variants
\* returned the caller's point stored under the former field name
C18_Witness ==
    /\ hybrid.pc = "done"
    /\ Len(hybrid.queries) >= 2
    /\ \E k \in DOMAIN hybrid.prefetch : "using" \in DOMAIN hybrid.prefetch[k]
    /\ \E k \in DOMAIN hybrid.prefetch : "using" \notin DOMAIN hybrid.prefetch[k]
    /\ \E j \in DOMAIN hybrid.result.val :
          /\ "userId" \in DOMAIN hybrid.result.val[j].payload
          /\ "user_id" \notin DOMAIN hybrid.result.val[j].payload

\* the legs that succeeded, counted from the log of the loop
RECURSIVE Succeeded(_)
Succeeded(tried) ==
    IF tried = <<>> THEN 0
    ELSE (IF Head(tried).dense THEN 1 ELSE 0) + (IF Head(tried).sparse THEN 1 ELSE 0)
         + Succeeded(Tail(tried))

\* C19 as the specification states it: a leg that fails never makes the
\* search fail; the fusion query carries the legs that succeeded, and the
\* search returns the empty list only when none did
C19_LegFailuresDegrade ==
    /\ ~(hybrid.pc = "failed" /\ hybrid.at = "legs")
    /\ Len(hybrid.prefetch) = Succeeded(hybrid.tried)
    /\ (hybrid.pc = "done" /\ hybrid.at = "legs") => Succeeded(hybrid.tried) = 0


\* C21 as the specification states it: the legs of all variants are issued
\* together, none waiting for another to finish: once the legs of one
\* variant have come back, no variant is still waiting to be issued
C21_LegsIssuedTogether ==
    (hybrid.pc = "legs" /\ hybrid.tried # <<>>)
        => Len(hybrid.tried) = Len(hybrid.queries)


\* a body that is blank, or whose JSON object has an empty "text"
WithoutText(body) ==
    \/ strip(body.raw) = <<>>
    \/ /\ body.json.kind = "dict"
       /\ "text" \in DOMAIN body.json.value
       /\ body.json.value.text = <<>>

\* C22: every /add request is answered 204, whatever the worker does and
\* wherever it stands; a request with a text started exactly one worker, a
\* blank body or an empty text none; the response never waits for the worker
C22_FireAndForget ==
    \A w \in Workers :
        /\ probe[w].at # "idle" =>
              probe[w].started = IF WithoutText(probe[w].body) THEN 0 ELSE 1
        /\ probe[w].started = 0 => pc[w] = "idle"
        /\ probe[w].at = "respond" => ENABLED Respond(w)
        /\ probe[w].at = "responded" => probe[w].code = 204

\* C22 witness: one request was answered 204 while its worker had not run
\* and that worker failed later, another with an empty text was answered
\* 204 and started nothing
C22_Witness ==
    \E v, w \in Workers :
        /\ probe[v].code = 204 /\ probe[v].seen = "get_memory" /\ pc[v] = "failed"
        /\ probe[w].code = 204 /\ probe[w].started = 0
        /\ probe[w].body.json.kind = "dict"


\* what a worker has done so far
Progress(v) ==
    <<pc[v], outcome[v], facts[v], idx[v], stored[v], skipped[v], checks[v], add_result[v]>>

\* C23: a step in which a worker fails, or in which its failure is handled,
\* ends inside the worker (the exception is caught and logged, never
\* leaves the thread) and changes neither the store, nor the registry, nor
\* what any other worker has done
C23_WriteFailureIsolated ==
    [][\A w \in Workers :
          (pc'[w] # pc[w] /\ pc'[w] \in {"failed", "logged", "escaped"})
              => /\ pc'[w] # "escaped"
                 /\ points' = points
                 /\ _memories' = _memories
                 /\ \A v \in Workers \ {w} : Progress(v)' = Progress(v)]_vars

\* C23 witness: one worker failed in the duplicate check with an exception
\* _is_duplicate does not catch, the failure was logged, and the other
\* worker stored its fact and returned
C23_Witness ==
    \E v, w \in Workers :
        /\ pc[v] = "logged" /\ Failure(v) = "JSONDecodeError"
        /\ pc[w] = "done" /\ stored[w] = 1
        /\ params[v].collection = params[w].collection


\* C24 as the specification states it: once _wipe_collection has returned,
\* a search of the collection made before any further write returns no
\* point, whoever the user and whatever the limit
C24_SearchAfterWipeIsEmpty ==
    (probe.pc = "wiped" /\ hybrid.pc = "done") => hybrid.result.val = <<>>

\* C27 as the specification states it: a run with --dry-run leaves the
\* collection as it found it, no point added and none deleted
C27_DryRunLeavesStore ==
    probe.dry_run => points[DEFAULT_COLLECTION] = probe.before


\* the files of the workspace before the capture
FilesBefore ==
    [path \in {TargetPath, TempPath} |-> IF path = TargetPath THEN probe.before ELSE Absent]

\* C25: extract_workflow_state calls the model at most once, and when its
\* result is empty or the sentinel the capture ends with the workspace as
\* it was: WORKFLOW_STATE.md neither created nor modified, no other file
C25_OneCallAndSentinelSkips ==
    /\ probe.calls <= 1
    /\ (probe.pc # "extract" /\ (probe.state = <<>> \/ probe.state = Sentinel))
          => /\ probe.pc \in {"done", "escaped"}
             /\ probe.files = FilesBefore

\* C25 witness: the model was called once, answered the sentinel between
\* blanks, and the capture ended over an existing WORKFLOW_STATE.md
C25_Witness ==
    /\ probe.pc = "done"
    /\ probe.calls = 1
    /\ probe.state = Sentinel
    /\ probe.before = File(PreviousState)
    /\ probe.files = FilesBefore

\* WORKFLOW_STATE.md is what it was or the whole new state
TargetWhole == probe.files[TargetPath] \in {probe.before, File(probe.state)}

\* C26 as the specification states it: the target is never partial, and
\* after an OS error in writing or renaming it is what it was and the
\* temporary file is gone
C26_AtomicWriteTmpRemoved ==
    /\ TargetWhole
    /\ (probe.pc = "done" /\ probe.failed \in {"write", "rename"})
          => /\ probe.files[TargetPath] = probe.before
             /\ probe.files[TempPath] = Absent

\* C26: the target is never partial; after an OS error in mkstemp, writing
\* or renaming it is what it was, and the temporary file is gone unless
\* its removal failed with an OS error too
C26_AtomicWrite ==
    /\ TargetWhole
    /\ (probe.pc = "done" /\ probe.failed # "none")
          => /\ probe.files[TargetPath] = probe.before
             /\ probe.unlink # "OSError" => probe.files[TempPath] = Absent
    /\ (probe.pc = "done" /\ probe.failed = "none" /\ probe.tmp_path # "")
          => /\ probe.files[TargetPath] = File(probe.state)
             /\ probe.files[TempPath] = Absent

\* C26 witness: the rename over an existing WORKFLOW_STATE.md failed after
\* the whole state was written to the temporary file, which was removed
C26_Witness ==
    /\ probe.pc = "done"
    /\ probe.failed = "rename"
    /\ probe.unlink = "ok"
    /\ probe.before = File(PreviousState)
    /\ probe.files = FilesBefore


\* the contents a collection holds for a user
ContentsOf(c, user_id) ==
    { points[c][i].payload.data :
        i \in { j \in 1..Len(points[c]) : points[c][j].payload.user_id = user_id } }

LongWords(text) ==
    { text[i].w : i \in { j \in 1..Len(text) : text[j].w # " " /\ text[j].n > 2 } }

\* C29: with a cosine of at most 1, _is_duplicate answers true only when
\* the matched point has a stored text, both texts have a word longer than
\* two characters, and the words they share are at least half of all
\* their words
C29_CosineAloneNeverDuplicates ==
    (probe.called /\ probe.duplicate /\ probe.score <= 1000)
        => /\ probe.existing # <<>>
           /\ LongWords(probe.text) # {}
           /\ LongWords(probe.existing) # {}
           /\ 2 * Cardinality(LongWords(probe.text) \cap LongWords(probe.existing))
                 >= Cardinality(LongWords(probe.text) \cup LongWords(probe.existing))

\* C29 witness: a cosine of 0.9 against a stored text sharing four words of
\* five was declared a duplicate, the jaccard of 0.8 making up the score
C29_Witness ==
    /\ probe.called
    /\ probe.duplicate
    /\ probe.score = 900
    /\ probe.text = ContentB
    /\ probe.existing = ContentA


\* the contents of the facts before the k-th that the duplicate check let
\* through, in the order of the batch
RECURSIVE AddedBefore(_, _)
AddedBefore(w, k) ==
    IF k <= 1 THEN <<>>
    ELSE AddedBefore(w, k - 1)
         \o (IF checks[w][k - 1].val THEN <<>> ELSE <<facts[w][k - 1].content>>)

\* the contents a collection holds, in insertion order
Held(c) == [i \in 1..Len(points[c]) |-> points[c][i].payload.data]

\* C30: when the duplicate check or the add of the k-th fact raises, the
\* collection holds the facts before the k-th that were added, each once,
\* and none from the k-th on; when store_facts returns, its result is the
\* number of adds made and, with the duplicates skipped, the size of the
\* batch
C30_PartialBatch ==
    \A w \in Workers :
        /\ (pc[w] = "failed" /\ stage[w] = "model" /\ outcome[w].kind = "return")
              => /\ Held(params[w].collection) = AddedBefore(w, idx[w])
                 /\ stored[w] = Len(Held(params[w].collection))
                 /\ idx[w] <= Len(facts[w])
        /\ pc[w] = "done"
              => /\ Held(params[w].collection) = AddedBefore(w, Len(facts[w]) + 1)
                 /\ stored[w] = Len(Held(params[w].collection))
                 /\ stored[w] + skipped[w] = Len(facts[w])

\* C30 witness: the add of the second fact of two failed after the first
\* was added; the collection holds the first alone
C30_Witness ==
    \E w \in Workers :
        /\ pc[w] = "failed"
        /\ Len(facts[w]) = 2 /\ idx[w] = 2
        /\ Len(checks[w]) = 2 /\ checks[w][2].kind = "return" /\ ~checks[w][2].val
        /\ stored[w] = 1
        /\ Held(params[w].collection) = <<facts[w][1].content>>

=============================================================================
